---- MODULE Spec2Model ----
(***************************************************************************)
(* A model of the creatorflow backend (src/api/views.py): the credit       *)
(* ledger (_fs_set_user and the endpoints that call it), the Paddle        *)
(* webhook, the auto top-up, the completion call with retry and fallback,  *)
(* and the text helpers of the Premium pipeline.                           *)
(*                                                                         *)
(* Text is modelled as sequences of one-character strings, so that the     *)
(* conversions of the code (title-casing, stripping, base64, JSON) are     *)
(* computed and not assumed.                                               *)
(***************************************************************************)
EXTENDS Integers, Sequences, FiniteSets, TLC

(***************************************************************************)
(* Bounds of the model.                                                    *)
(***************************************************************************)
\* transaction ids are 1..MaxTxns; 0 stands for "no transaction id"
MaxTxns == 1
\* how many credits the client side may spend in the model
MaxSpends == 1
\* the longest raw text given to the tightening functions, in words
MaxWords == 81

(***************************************************************************)
(* Characters and strings.                                                 *)
(***************************************************************************)
LowerSeq == <<"a","b","c","d","e","f","g","h","i","j","k","l","m",
              "n","o","p","q","r","s","t","u","v","w","x","y","z">>
UpperSeq == <<"A","B","C","D","E","F","G","H","I","J","K","L","M",
              "N","O","P","Q","R","S","T","U","V","W","X","Y","Z">>

Range(s) == { s[i] : i \in DOMAIN s }

LowerChars == Range(LowerSeq)
UpperChars == Range(UpperSeq)

IsLower(c) == c \in LowerChars
IsUpper(c) == c \in UpperChars
IsCased(c) == IsLower(c) \/ IsUpper(c)

LetterIndex(seq, c) == CHOOSE i \in DOMAIN seq : seq[i] = c

\* str.lower / str.upper on one character
ToLower(c) == IF IsUpper(c) THEN LowerSeq[LetterIndex(UpperSeq, c)] ELSE c
ToUpper(c) == IF IsLower(c) THEN UpperSeq[LetterIndex(LowerSeq, c)] ELSE c

\* the characters str.strip() and regex \s treat as whitespace
IsSpace(c) == c \in {" ", "\n", "\r", "\t"}

RECURSIVE LStrip(_)
LStrip(s) == IF s # <<>> /\ IsSpace(Head(s)) THEN LStrip(Tail(s)) ELSE s

RECURSIVE RStrip(_)
RStrip(s) == IF s # <<>> /\ IsSpace(s[Len(s)])
             THEN RStrip(SubSeq(s, 1, Len(s) - 1)) ELSE s

\* str.strip()
Strip(s) == RStrip(LStrip(s))

\* str.title() left out: the label is used as sent
MutTitleAsSent(s) == s

\* str.title(): a cased character is upper-cased when it follows an uncased
\* one (or starts the string) and lower-cased otherwise
Title(s) == [ i \in DOMAIN s |->
                IF ~IsCased(s[i]) THEN s[i]
                ELSE IF i = 1 \/ ~IsCased(s[i - 1]) THEN ToUpper(s[i])
                     ELSE ToLower(s[i]) ]

\* str.lower()
Lower(s) == [ i \in DOMAIN s |-> ToLower(s[i]) ]

(***************************************************************************)
(* Plan constants.                                                         *)
(***************************************************************************)
sBasic   == <<"B","a","s","i","c">>
sPro     == <<"P","r","o">>
sPremium == <<"P","r","e","m","i","u","m">>

CreditsBasic   == 50
CreditsPro     == 200
CreditsPremium == 1000

\* PLAN_CREDITS
PLAN_CREDITS == (sBasic :> CreditsBasic) @@ (sPro :> CreditsPro)
                   @@ (sPremium :> CreditsPremium)
\* PAID_PLANS
PAID_PLANS == {sPro, sPremium}

\* PLAN_CREDITS.get(plan, 0)
PlanCreditsGet(plan) == IF plan \in DOMAIN PLAN_CREDITS THEN PLAN_CREDITS[plan] ELSE 0

(***************************************************************************)
(* Names bound in the module namespace of views.py when a handler runs.    *)
(* A name that is used but never imported or defined raises NameError at   *)
(* the point of use.                                                       *)
(***************************************************************************)
ModuleGlobals == {"json", "logging", "re", "time", "requests", "config",
                  "JsonResponse", "HttpRequest", "csrf_exempt", "os",
                  "firebase_admin", "credentials", "firestore",
                  "require_POST", "_dt", "Optional", "Tuple", "Any", "Dict", "List"}

\* every name the handlers use is bound
MutNameBoundAll(n) == TRUE

NameBound(n) == n \in ModuleGlobals

(***************************************************************************)
(* State.                                                                  *)
(***************************************************************************)
VARIABLES
    fs_db,      \* the module-level store client: "client", or "None" when unavailable
    users,      \* the "users" collection: document id -> document
    now,        \* the wall clock, in hours since the first request
    resp,       \* the response of the last request
    calls,      \* the _fs_set_user calls the last request made, in order
    prev,       \* the last successful paid ledger update with a transaction id,
                \* while nothing but spending and time has happened since
    basicGrants, \* per document, how many Basic free packs it was granted (capped at 2)
    spends,     \* how many credits were spent so far
    ptok,       \* a passthrough token and what the webhook helpers make of it
    txt,        \* a raw model output and what a tightening function makes of it
    llm,        \* the call_openrouter invocation in progress
    gen,        \* the generate_with_fallback invocation in progress
    rev,        \* the generate_review request in progress
    inflight    \* the handlers running concurrently on one record, per worker

vars == <<fs_db, users, now, resp, calls, prev, basicGrants, spends, ptok, txt, llm, gen, rev, inflight>>

\* the variables the ledger endpoints leave alone
others == <<ptok, txt, llm, gen, rev, inflight>>
\* the variables of the ledger
ledger == <<fs_db, users, now, resp, calls, prev, basicGrants, spends>>

\* nothing to decode, nothing to tighten, no call in progress
NoPt  == [stage |-> "none"]
NoTxt == [stage |-> "none"]
NoLlm == [active |-> FALSE]
NoGen == [pc |-> "idle"]
NoRev == [pc |-> "idle"]
\* no handler runs concurrently
NoInflight == <<>>

(***************************************************************************)
(* The user store.                                                         *)
(***************************************************************************)
\* document ids (Firebase uids) and the e-mail addresses of the model
U1 == <<"u","1">>
U2 == <<"u","2">>
Uids == {U1, U2}
EmailOf(d) == <<"m">> \o SubSeq(d, 2, 2) \o <<"@","x">>
\* an address no document carries
EmailNobody == <<"n","@","x">>
Txns   == 1 .. MaxTxns

\* creditDepletedAt: absent/null, an ISO timestamp (hours), or an unparsable string
NoStamp    == [kind |-> "none", at |-> 0]
StampAt(h) == [kind |-> "ts", at |-> h]
BadStamp   == [kind |-> "bad", at |-> 0]

\* a document that does not exist: snap.to_dict() is None, every doc.get() is None
NoDoc == [exists |-> FALSE, email |-> <<>>, subscriptionPlan |-> <<>>,
          subscriptionSelected |-> FALSE, credits |-> 0,
          freeBasicGranted |-> FALSE, processedTxns |-> {}, dottedTxns |-> {},
          lastPaidTxn |-> 0, creditDepletedAt |-> NoStamp]

\* the query has lost its filter: every record matches
MutEmailQueryUnfiltered(us, e) == { d \in Uids : us[d].exists }

\* fs_db.collection("users").where("email", "==", e).limit(1).get()
EmailQuery(us, e) == { d \in Uids : us[d].exists /\ us[d].email = e }

(***************************************************************************)
(* _fs_set_user                                                            *)
(***************************************************************************)
\* the updates dict staged by _fs_set_user. keys is the set of staged fields;
\* dotted is the transaction id t of the staged key "processedTxns.<t>" (0: none).
\* credits_to_grant is <<n>>, or <<>> for None.
MutStageUpdatesNoGate(doc, plan, credits_to_grant, transaction_id) ==
    LET base == [keys |-> {"subscriptionSelected", "subscriptionPlan", "creditDepletedAt"},
                 subscriptionSelected |-> TRUE, subscriptionPlan |-> plan,
                 creditDepletedAt |-> NoStamp,
                 credits |-> 0, freeBasicGranted |-> FALSE, dotted |-> 0, lastPaidTxn |-> 0]
        amount == IF credits_to_grant = <<>> THEN PlanCreditsGet(plan)
                  ELSE credits_to_grant[1]
    IN  IF plan = sBasic
        THEN [base EXCEPT !.keys = @ \cup {"credits", "freeBasicGranted"},
                          !.credits = PLAN_CREDITS[sBasic],
                          !.freeBasicGranted = TRUE]
        ELSE IF plan \in PAID_PLANS
        THEN [base EXCEPT !.keys = @ \cup {"credits"}, !.credits = amount]
        ELSE base

MutStageUpdatesSkipAll(doc, plan, credits_to_grant, transaction_id) ==
    LET base == [keys |-> {"subscriptionSelected", "subscriptionPlan", "creditDepletedAt"},
                 subscriptionSelected |-> TRUE, subscriptionPlan |-> plan,
                 creditDepletedAt |-> NoStamp,
                 credits |-> 0, freeBasicGranted |-> FALSE, dotted |-> 0, lastPaidTxn |-> 0]
        amount == IF credits_to_grant = <<>> THEN PlanCreditsGet(plan)
                  ELSE credits_to_grant[1]
    IN  IF plan = sBasic
        THEN IF ~doc.freeBasicGranted
             THEN [base EXCEPT !.keys = @ \cup {"credits", "freeBasicGranted"},
                               !.credits = PLAN_CREDITS[sBasic],
                               !.freeBasicGranted = TRUE]
             ELSE [base EXCEPT !.keys = {}]
        ELSE IF plan \in PAID_PLANS
        THEN IF transaction_id # 0
             THEN IF transaction_id \in doc.processedTxns
                  THEN [base EXCEPT !.keys = {}]
                  ELSE [base EXCEPT !.keys = @ \cup {"credits", "processedTxns.", "lastPaidTxn"},
                                    !.credits = amount,
                                    !.dotted = transaction_id,
                                    !.lastPaidTxn = transaction_id]
             ELSE [base EXCEPT !.keys = @ \cup {"credits"}, !.credits = amount]
        ELSE base

StageUpdates(doc, plan, credits_to_grant, transaction_id) ==
    LET base == [keys |-> {"subscriptionSelected", "subscriptionPlan", "creditDepletedAt"},
                 subscriptionSelected |-> TRUE, subscriptionPlan |-> plan,
                 creditDepletedAt |-> NoStamp,
                 credits |-> 0, freeBasicGranted |-> FALSE, dotted |-> 0, lastPaidTxn |-> 0]
        amount == IF credits_to_grant = <<>> THEN PlanCreditsGet(plan)
                  ELSE credits_to_grant[1]
        \* (doc.get("processedTxns") or {}).get(transaction_id)
        already == transaction_id \in doc.processedTxns
    IN  IF plan = sBasic
        THEN IF ~doc.freeBasicGranted
             THEN [base EXCEPT !.keys = @ \cup {"credits", "freeBasicGranted"},
                               !.credits = PLAN_CREDITS[sBasic],
                               !.freeBasicGranted = TRUE]
             ELSE base
        ELSE IF plan \in PAID_PLANS
        THEN IF transaction_id # 0
             THEN IF already
                  THEN base
                  ELSE [base EXCEPT !.keys = @ \cup {"credits", "processedTxns.", "lastPaidTxn"},
                                    !.credits = amount,
                                    !.dotted = transaction_id,
                                    !.lastPaidTxn = transaction_id]
             ELSE [base EXCEPT !.keys = @ \cup {"credits"}, !.credits = amount]
        ELSE base

\* the staged credits are added to the balance of the record
MutMergeSetAddsCredits(doc, up) ==
    [exists               |-> TRUE,
     email                |-> doc.email,
     subscriptionPlan     |-> IF "subscriptionPlan" \in up.keys
                              THEN up.subscriptionPlan ELSE doc.subscriptionPlan,
     subscriptionSelected |-> IF "subscriptionSelected" \in up.keys
                              THEN up.subscriptionSelected ELSE doc.subscriptionSelected,
     credits              |-> IF "credits" \in up.keys
                              THEN doc.credits + up.credits ELSE doc.credits,
     freeBasicGranted     |-> IF "freeBasicGranted" \in up.keys
                              THEN up.freeBasicGranted ELSE doc.freeBasicGranted,
     processedTxns        |-> doc.processedTxns,
     dottedTxns           |-> IF "processedTxns." \in up.keys
                              THEN doc.dottedTxns \cup {up.dotted} ELSE doc.dottedTxns,
     lastPaidTxn          |-> IF "lastPaidTxn" \in up.keys
                              THEN up.lastPaidTxn ELSE doc.lastPaidTxn,
     creditDepletedAt     |-> IF "creditDepletedAt" \in up.keys
                              THEN up.creditDepletedAt ELSE doc.creditDepletedAt]

\* ref.set(updates) without merge: the document is replaced by the staged keys
MutMergeSetReplaces(doc, up) ==
    [exists               |-> TRUE,
     email                |-> <<>>,
     subscriptionPlan     |-> IF "subscriptionPlan" \in up.keys
                              THEN up.subscriptionPlan ELSE <<>>,
     subscriptionSelected |-> "subscriptionSelected" \in up.keys /\ up.subscriptionSelected,
     credits              |-> IF "credits" \in up.keys THEN up.credits ELSE 0,
     freeBasicGranted     |-> "freeBasicGranted" \in up.keys /\ up.freeBasicGranted,
     processedTxns        |-> {},
     dottedTxns           |-> IF "processedTxns." \in up.keys THEN {up.dotted} ELSE {},
     lastPaidTxn          |-> IF "lastPaidTxn" \in up.keys THEN up.lastPaidTxn ELSE 0,
     creditDepletedAt     |-> IF "creditDepletedAt" \in up.keys
                              THEN up.creditDepletedAt ELSE NoStamp]

\* ref.set(updates, merge=True): every staged key is written as one top-level
\* field and every other field is left as it is. set() does not split a key at
\* its dots (only update() does), so the key "processedTxns.<t>" is written as a
\* field of that literal name, beside the map field "processedTxns".
MergeSet(doc, up) ==
    [exists               |-> TRUE,
     email                |-> doc.email,
     subscriptionPlan     |-> IF "subscriptionPlan" \in up.keys
                              THEN up.subscriptionPlan ELSE doc.subscriptionPlan,
     subscriptionSelected |-> IF "subscriptionSelected" \in up.keys
                              THEN up.subscriptionSelected ELSE doc.subscriptionSelected,
     credits              |-> IF "credits" \in up.keys THEN up.credits ELSE doc.credits,
     freeBasicGranted     |-> IF "freeBasicGranted" \in up.keys
                              THEN up.freeBasicGranted ELSE doc.freeBasicGranted,
     processedTxns        |-> doc.processedTxns,
     dottedTxns           |-> IF "processedTxns." \in up.keys
                              THEN doc.dottedTxns \cup {up.dotted} ELSE doc.dottedTxns,
     lastPaidTxn          |-> IF "lastPaidTxn" \in up.keys
                              THEN up.lastPaidTxn ELSE doc.lastPaidTxn,
     creditDepletedAt     |-> IF "creditDepletedAt" \in up.keys
                              THEN up.creditDepletedAt ELSE doc.creditDepletedAt]

\* a failed call reports success
MutFsFailedReturnsTrue(us, reads) ==
    [ret |-> TRUE, users |-> us, doc |-> <<>>, granted |-> FALSE,
     reads |-> reads, writes |-> 0]

\* the outcome of a _fs_set_user call that did not reach the store
FsFailed(us, reads) ==
    [ret |-> FALSE, users |-> us, doc |-> <<>>, granted |-> FALSE,
     reads |-> reads, writes |-> 0]

\* _fs_set_user(uid_or_email, plan, credits_to_grant=..., by_uid=..., transaction_id=...)
\* db is the value of fs_db; pick is the document the email query returns when
\* several match; fault says which store access raises ("none", "read", "write").
_fs_set_user(db, us, uid_or_email, plan, credits_to_grant, by_uid, transaction_id, pick, fault) ==
    IF db = "None" THEN FsFailed(us, 0)
    ELSE IF fault = "read" THEN FsFailed(us, 1)
    ELSE IF ~by_uid /\ EmailQuery(us, uid_or_email) = {} THEN FsFailed(us, 1)
    ELSE
      LET ref == IF by_uid THEN uid_or_email
                 ELSE IF pick \in EmailQuery(us, uid_or_email) THEN pick
                 ELSE CHOOSE d \in EmailQuery(us, uid_or_email) : TRUE
          nreads == IF by_uid THEN 1 ELSE 2
          doc == us[ref]
          updates == StageUpdates(doc, plan, credits_to_grant, transaction_id)
      IN  IF fault = "write"
          THEN [FsFailed(us, nreads) EXCEPT !.doc = ref, !.writes = 1]
          ELSE [ret |-> TRUE,
                users |-> [us EXCEPT ![ref] = MergeSet(doc, updates)],
                doc |-> ref,
                granted |-> "credits" \in updates.keys,
                reads |-> nreads, writes |-> 1]

\* def _fs_set_user(uid_or_email, plan, *, credits_to_grant, ...): the parameters
\* after the bare * are keyword-only, so a call binds at most two positional
\* arguments and raises TypeError when given more.
FsSetUserPositional == 2
\* every call binds, whatever it passes positionally
MutCallBindsAny(npositional) == TRUE

CallBinds(npositional) == npositional <= FsSetUserPositional

(***************************************************************************)
(* Bytes, base64 and JSON: what _decode_passthrough computes.              *)
(***************************************************************************)
\* the printable ASCII characters, code 32 first (code 96 is spelled out)
AsciiPrintable ==
    << " ", "!", "\"", "#", "$", "%", "&", "'", "(", ")", "*", "+", ",", "-", ".", "/",
       "0", "1", "2", "3", "4", "5", "6", "7", "8", "9", ":", ";", "<", "=", ">", "?",
       "@", "A", "B", "C", "D", "E", "F", "G", "H", "I", "J", "K", "L", "M", "N", "O",
       "P", "Q", "R", "S", "T", "U", "V", "W", "X", "Y", "Z", "[", "\\", "]", "^", "_",
       "BACKTICK", "a", "b", "c", "d", "e", "f", "g", "h", "i", "j", "k", "l", "m", "n", "o",
       "p", "q", "r", "s", "t", "u", "v", "w", "x", "y", "z", "{", "|", "}", "~" >>

AsciiChars == Range(AsciiPrintable)

\* ord(c) of a printable ASCII character
Ord(c) == 31 + LetterIndex(AsciiPrintable, c)

\* str.encode("utf-8") of ASCII text
EncodeUtf8(s) == [ i \in DOMAIN s |-> Ord(s[i]) ]

\* bytes.decode("utf-8"): the model's text is ASCII; any other byte fails
Utf8Decodes(bytes) == \A i \in DOMAIN bytes : bytes[i] \in 32 .. 126
DecodeUtf8(bytes) == [ i \in DOMAIN bytes |-> AsciiPrintable[bytes[i] - 31] ]

\* the base64 alphabet, value 0 first
B64Alphabet ==
    << "A", "B", "C", "D", "E", "F", "G", "H", "I", "J", "K", "L", "M", "N", "O", "P",
       "Q", "R", "S", "T", "U", "V", "W", "X", "Y", "Z", "a", "b", "c", "d", "e", "f",
       "g", "h", "i", "j", "k", "l", "m", "n", "o", "p", "q", "r", "s", "t", "u", "v",
       "w", "x", "y", "z", "0", "1", "2", "3", "4", "5", "6", "7", "8", "9", "+", "/" >>

B64Chars == Range(B64Alphabet)
B64Value(c) == LetterIndex(B64Alphabet, c) - 1

\* base64.b64encode
RECURSIVE B64Encode(_)
B64Encode(bytes) ==
    IF bytes = <<>> THEN <<>>
    ELSE IF Len(bytes) = 1
    THEN LET n == bytes[1] * 16
         IN  << B64Alphabet[(n \div 64) + 1], B64Alphabet[(n % 64) + 1], "=", "=" >>
    ELSE IF Len(bytes) = 2
    THEN LET n == (bytes[1] * 256 + bytes[2]) * 4
         IN  << B64Alphabet[(n \div 4096) + 1], B64Alphabet[((n \div 64) % 64) + 1],
                B64Alphabet[(n % 64) + 1], "=" >>
    ELSE LET n == bytes[1] * 65536 + bytes[2] * 256 + bytes[3]
         IN  << B64Alphabet[(n \div 262144) + 1], B64Alphabet[((n \div 4096) % 64) + 1],
                B64Alphabet[((n \div 64) % 64) + 1], B64Alphabet[(n % 64) + 1] >>
             \o B64Encode(SubSeq(bytes, 4, Len(bytes)))

\* the bytes of a run of sextets (the last group may hold 2 or 3 of them):
\* byte k lies in the quad (k - 1) \div 3
SextetsToBytes(sx) ==
    LET nbytes == (Len(sx) * 6) \div 8
        At(q, j) == sx[4 * q + j]
    IN  [ k \in 1 .. nbytes |->
            LET q == (k - 1) \div 3
            IN  IF (k - 1) % 3 = 0 THEN At(q, 1) * 4 + At(q, 2) \div 16
                ELSE IF (k - 1) % 3 = 1 THEN (At(q, 2) % 16) * 16 + At(q, 3) \div 4
                ELSE (At(q, 3) % 4) * 64 + At(q, 4) ]

\* The scan of binascii.a2b_base64 (not strict): characters outside the
\* alphabet are skipped; an "=" ends the data when the quad holds at least two
\* sextets and the "=" seen since the last sextet complete it; data that ends
\* inside a quad is an error.
B64Decode(s) ==
    LET Alpha(i) == Cardinality({ k \in 1 .. i : s[k] \in B64Chars })
        LastAlpha(i) == IF Alpha(i) = 0 THEN 0
                        ELSE CHOOSE k \in 1 .. i :
                               s[k] \in B64Chars /\ \A l \in (k + 1) .. i : s[l] \notin B64Chars
        Pads(i) == Cardinality({ k \in (LastAlpha(i) + 1) .. i : s[k] = "=" })
        Ends(i) == s[i] = "=" /\ Alpha(i) % 4 >= 2 /\ (Alpha(i) % 4) + Pads(i) >= 4
        stops == { i \in DOMAIN s : Ends(i) }
        last == IF stops = {} THEN Len(s)
                ELSE CHOOSE i \in stops : \A k \in stops : i <= k
        sextets == [ k \in 1 .. Alpha(last) |->
                       B64Value(s[CHOOSE i \in 1 .. last :
                                    s[i] \in B64Chars /\ Alpha(i) = k]) ]
        ok == stops # {} \/ Alpha(Len(s)) % 4 = 0
    IN  [ok |-> ok, bytes |-> IF ok THEN SextetsToBytes(sextets) ELSE <<>>]

\* A JSON object of the model is a sequence of (key, value) pairs of strings.
\* json.dumps(obj): separators ", " and ": "; compact: the separators of
\* JSON.stringify, "," and ":".
JsonString(v) == <<"\"">> \o v \o <<"\"">>

RECURSIVE JsonPairs(_, _)
JsonPairs(pairs, compact) ==
    IF pairs = <<>> THEN <<>>
    ELSE JsonString(pairs[1][1])
         \o (IF compact THEN <<":">> ELSE <<":", " ">>)
         \o JsonString(pairs[1][2])
         \o (IF Len(pairs) = 1 THEN <<>>
             ELSE (IF compact THEN <<",">> ELSE <<",", " ">>)
                  \o JsonPairs(Tail(pairs), compact))

JsonDumps(pairs, compact) == <<"{">> \o JsonPairs(pairs, compact) \o <<"}">>

\* the position after the JSON whitespace that starts at i
RECURSIVE SkipWs(_, _)
SkipWs(s, i) == IF i <= Len(s) /\ IsSpace(s[i]) THEN SkipWs(s, i + 1) ELSE i

\* the position of the quote that closes a string opened before i (0: none);
\* the model's strings hold no escapes, so a backslash is refused
RECURSIVE CloseQuote(_, _)
CloseQuote(s, i) ==
    IF i > Len(s) \/ s[i] = "\\" THEN 0
    ELSE IF s[i] = "\"" THEN i
    ELSE CloseQuote(s, i + 1)

\* a JSON string at position i: [ok, val, next]
ParseString(s, i) ==
    IF i > Len(s) \/ s[i] # "\"" \/ CloseQuote(s, i + 1) = 0
    THEN [ok |-> FALSE, val |-> <<>>, next |-> i]
    ELSE [ok |-> TRUE, val |-> SubSeq(s, i + 1, CloseQuote(s, i + 1) - 1),
          next |-> CloseQuote(s, i + 1) + 1]

\* the members of an object, from position i (after "{" or ","): [ok, pairs, next]
RECURSIVE ParseMembers(_, _, _)
ParseMembers(s, i, acc) ==
    LET k  == ParseString(s, SkipWs(s, i))
        c  == SkipWs(s, k.next)
        v  == ParseString(s, SkipWs(s, c + 1))
        e  == SkipWs(s, v.next)
        bad == [ok |-> FALSE, pairs |-> <<>>, next |-> i]
    IN  IF ~k.ok \/ c > Len(s) \/ s[c] # ":" THEN bad
        ELSE IF ~v.ok \/ e > Len(s) THEN bad
        ELSE IF s[e] = "}" THEN [ok |-> TRUE, pairs |-> Append(acc, <<k.val, v.val>>),
                                 next |-> e + 1]
        ELSE IF s[e] = "," THEN ParseMembers(s, e + 1, Append(acc, <<k.val, v.val>>))
        ELSE bad

IsDigit(c) == c \in {"0","1","2","3","4","5","6","7","8","9"}

\* json.loads(text): kind is "object" (pairs holds its members), "other" (a
\* JSON value that is no object: here a number) or "error" (JSONDecodeError)
JsonLoads(text) ==
    LET i == SkipWs(text, 1)
        JsonError == [kind |-> "error", pairs |-> <<>>]
    IN  IF i > Len(text) THEN JsonError
        ELSE IF (\A j \in DOMAIN text : IsDigit(text[j])) THEN [kind |-> "other", pairs |-> <<>>]
        ELSE IF text[i] # "{" THEN JsonError
        ELSE IF SkipWs(text, i + 1) <= Len(text) /\ text[SkipWs(text, i + 1)] = "}"
        THEN IF SkipWs(text, SkipWs(text, i + 1) + 1) > Len(text)
             THEN [kind |-> "object", pairs |-> <<>>] ELSE JsonError
        ELSE LET m == ParseMembers(text, i + 1, <<>>)
             IN  IF m.ok /\ SkipWs(text, m.next) > Len(text)
                 THEN [kind |-> "object", pairs |-> m.pairs] ELSE JsonError

\* dict.get(key) on the members of an object: the last value given to key, or
\* the empty string where Python has None
RECURSIVE DictGet(_, _)
DictGet(pairs, key) ==
    IF pairs = <<>> THEN <<>>
    ELSE IF pairs[Len(pairs)][1] = key THEN pairs[Len(pairs)][2]
    ELSE DictGet(SubSeq(pairs, 1, Len(pairs) - 1), key)

DictKeys(pairs) == { pairs[i][1] : i \in DOMAIN pairs }

\* the mapping an object denotes
AsMapping(pairs) == [ k \in DictKeys(pairs) |-> DictGet(pairs, k) ]

(***************************************************************************)
(* Paddle webhook helpers.                                                 *)
(***************************************************************************)
kUid   == <<"u","i","d">>
kEmail == <<"e","m","a","i","l">>
kPlan  == <<"p","l","a","n">>

\* A passthrough value: missing, a dict, or a string
PtNone    == [kind |-> "none", pairs |-> <<>>, text |-> <<>>]
PtDict(o) == [kind |-> "dict", pairs |-> o, text |-> <<>>]
PtStr(t)  == [kind |-> "str", pairs |-> <<>>, text |-> t]

EmptyDict == [kind |-> "object", pairs |-> <<>>]

\* the first try block of _decode_passthrough:
\*     decoded = base64.b64decode(value).decode("utf-8"); return json.loads(decoded)
\* kind "error" stands for any exception raised in it
TryBase64Json(text) ==
    IF ~NameBound("base64") THEN [kind |-> "error", pairs |-> <<>>]
    ELSE LET r == B64Decode(text)
         IN  IF ~r.ok \/ ~Utf8Decodes(r.bytes) THEN [kind |-> "error", pairs |-> <<>>]
             ELSE JsonLoads(DecodeUtf8(r.bytes))

_decode_passthrough(value) ==
    IF value.kind = "none" THEN EmptyDict
    ELSE IF value.kind = "dict"
    THEN [kind |-> "object", pairs |-> value.pairs]
    ELSE IF value.text = <<>> THEN EmptyDict
    ELSE LET viaB64 == TryBase64Json(value.text)
             direct == JsonLoads(value.text)
         IN  IF viaB64.kind # "error" THEN viaB64
             ELSE IF direct.kind # "error" THEN direct
             ELSE EmptyDict

\* details.totals.grand_total: missing, a number (in hundredths, so that 6.46
\* and 646 are both numbers) or a string
NoAmount     == [kind |-> "none", n |-> 0, s |-> <<>>]
NumAmount(h) == [kind |-> "num", n |-> h, s |-> <<>>]
StrAmount(t) == [kind |-> "str", n |-> 0, s |-> t]

\* amount in (646, "6.46", 6.46, "646") and the two lookups after it
AmountIn(amount, minor, major_text, minor_text) ==
    \/ amount.kind = "num" /\ amount.n \in {minor * 100, minor}
    \/ amount.kind = "str" /\ amount.s \in {major_text, minor_text}

\* the fields of the event data the webhook reads
NoData == [cd_plan |-> <<>>, md_plan |-> <<>>,
           passthrough |-> PtNone, checkout_passthrough |-> PtNone,
           transaction_passthrough |-> PtNone,
           customer_email |-> <<>>, customer_email_flat |-> <<>>,
           billing_email |-> <<>>,
           price_name |-> <<>>, product_name |-> <<>>,
           grand_total |-> NoAmount]

\* a or b on two strings
StrOr(a, b) == IF a # <<>> THEN a ELSE b
\* a or b on two passthrough values (None, "" and {} are falsy)
PtOr(a, b) ==
    IF a.kind = "none" \/ (a.kind = "dict" /\ a.pairs = <<>>)
       \/ (a.kind = "str" /\ a.text = <<>>) THEN b ELSE a

\* _get_identity_and_plan(data): raises AttributeError when the passthrough
\* decodes to a JSON value that is no object (pt.get)
_get_identity_and_plan(data) ==
    LET plan_label0 == StrOr(data.cd_plan, data.md_plan)
        passthrough_raw == PtOr(data.passthrough,
                                PtOr(data.checkout_passthrough, data.transaction_passthrough))
        pt == _decode_passthrough(passthrough_raw)
        plan_label == StrOr(plan_label0, DictGet(pt.pairs, kPlan))
        email == StrOr(data.customer_email,
                       StrOr(data.customer_email_flat,
                             StrOr(data.billing_email, DictGet(pt.pairs, kEmail))))
    IN  IF pt.kind # "object"
        THEN [raises |-> TRUE, uid |-> <<>>, email |-> <<>>, plan |-> <<>>]
        ELSE [raises |-> FALSE, uid |-> DictGet(pt.pairs, kUid), email |-> email,
              plan |-> Title(plan_label)]

\* sub in s
Contains(s, sub) ==
    \E i \in 1 .. (Len(s) - Len(sub) + 1) : SubSeq(s, i, i + Len(sub) - 1) = sub

sLowPremium == <<"p","r","e","m","i","u","m">>
sLowPro     == <<"p","r","o">>

\* _infer_plan_from_names(data): <<>> stands for None
_infer_plan_from_names(data) ==
    LET name == Lower(data.price_name)
        prod_name == Lower(data.product_name)
    IN  IF Contains(name, sLowPremium) THEN sPremium
        ELSE IF Contains(name, sLowPro) THEN sPro
        ELSE IF Contains(prod_name, sLowPremium) THEN sPremium
        ELSE IF Contains(prod_name, sLowPro) THEN sPro
        ELSE <<>>

\* _detect_credits(plan_label, data)
_detect_credits(plan_label, data) ==
    LET amount == data.grand_total
    IN  IF plan_label = sPro THEN 200
        ELSE IF plan_label = sPremium THEN 1000
        ELSE IF AmountIn(amount, 646, <<"6",".","4","6">>, <<"6","4","6">>) THEN 200
        ELSE IF AmountIn(amount, 1669, <<"1","6",".","6","9">>, <<"1","6","6","9">>) THEN 1000
        ELSE IF AmountIn(amount, 575, <<"5",".","7","5">>, <<"5","7","5">>) THEN 200
        ELSE 0

\* an allow-list that also lets paid invoices through
MutInterestingInvoices ==
    {"transaction.completed", "subscription.activated",
     "subscription.payment_succeeded", "checkout.completed", "invoice.paid"}

\* the event types paddle_webhook processes
interesting == {"transaction.completed", "subscription.activated",
                "subscription.payment_succeeded", "checkout.completed"}

\* A webhook request: the payload either wraps the event ({"event": {...}}) or
\* is the event; type_key says under which key the event type is sent ("none":
\* not at all), data_key under which key the data is ("none": the data fields
\* are looked up in the payload itself, given here as outer).
\* event.get("type") or event.get("name") or "unknown"
EventTypeOf(rq) == IF rq.type_key \in {"type", "name"} THEN rq.etype ELSE "unknown"
\* event.get("data") or event.get("object") or payload
EventDataOf(rq) == IF rq.data_key \in {"data", "object"} THEN rq.inner ELSE rq.outer

(***************************************************************************)
(* Requests and responses.                                                 *)
(***************************************************************************)
\* An HTTP exchange: the response, with the request it answers in req. Absent
\* body fields are "-"; exc names the exception that escaped the view (the
\* framework then answers 500); reads and writes count the store accesses the
\* request attempted.
NoReq == [sent |-> FALSE]

Response(op, status) ==
    [op |-> op, status |-> status, ok |-> "-", error |-> "-", ignored |-> "-",
     no_user |-> "-", updated |-> "-", exc |-> "-", reads |-> 0, writes |-> 0,
     fault |-> "none", req |-> NoReq]

\* the exchange r, for the request q
Answer(q, r) == [r EXCEPT !.req = q]

Raised(op, exc, reads, writes) ==
    [Response(op, 500) EXCEPT !.exc = exc, !.reads = reads, !.writes = writes]

BoolStr(b) == IF b THEN "true" ELSE "false"

\* one entry of calls: a _fs_set_user call as the request made it
CallRecord(ident, by_uid, plan, txn, outcome, doc, granted) ==
    [ident |-> ident, by_uid |-> by_uid, plan |-> plan, txn |-> txn,
     outcome |-> outcome, doc |-> doc, granted |-> granted]

NoPrev == [doc |-> <<>>, plan |-> <<>>, txn |-> 0]

\* which store access of a request raises
Faults == {"none", "read", "write"}
\* the requests of Spec meet a store that answers (or no client at all)
NoFaults == {"none"}

\* request bodies: (uid, email) as sent, the empty string standing for a missing
\* field. Requests are made for account u1 (by its uid or its e-mail) or with an
\* address no document carries; document u2 belongs to another user.
Identities == { << <<>>, <<>> >>,
                << <<" ">> \o U1, EmailNobody >>,
                << <<>>, EmailOf(U1) \o <<" ">> >>,
                << <<>>, EmailNobody >> }

\* plan labels as a client may send them
RawPlans == { <<"g","o","l","d">>,
              <<"p","r","o">>,
              <<" ","P","R","O"," ">>,
              <<"P","r","e","m","i","u","m">>,
              <<"b","a","s","i","c">> }

\* the documents an email query may return first
Picks(us, ident, by_uid) ==
    IF ~by_uid /\ EmailQuery(us, ident) # {} THEN EmailQuery(us, ident) ELSE {U1}

Min(a, b) == IF a < b THEN a ELSE b

\* the bookkeeping of one finished ledger call r (see prev and basicGrants)
PrevAfter(r, plan, txn) ==
    IF r.ret /\ plan \in PAID_PLANS /\ txn # 0
    THEN [doc |-> r.doc, plan |-> plan, txn |-> txn] ELSE NoPrev

GrantsAfter(r, plan) ==
    IF r.ret /\ plan = sBasic /\ r.granted
    THEN [basicGrants EXCEPT ![r.doc] = Min(@ + 1, 2)] ELSE basicGrants

(***************************************************************************)
(* finalize_checkout                                                       *)
(***************************************************************************)
finalize_checkout_rejected ==
    /\ \E r \in { Response("finalize_checkout", 405),
                  [Response("finalize_checkout", 400) EXCEPT
                       !.ok = "false", !.error = "invalid_json"] } :
          resp' = r
    /\ calls' = <<>>
    /\ prev' = NoPrev
    /\ UNCHANGED <<others, fs_db, users, now, basicGrants, spends>>

\* the address is taken first
MutEmailOrUid(uid, email) == IF email # <<>> THEN email ELSE uid

\* "uid or email"
UidOrEmail(uid, email) == IF uid # <<>> THEN uid ELSE email

finalize_checkout_body(id, rawplan, rawtxn, fault) ==
    LET q     == [uid |-> id[1], email |-> id[2], plan |-> rawplan, transaction_id |-> rawtxn]
        uid   == Strip(id[1])
        email == Strip(id[2])
        plan  == Title(Strip(rawplan))
        ident == UidOrEmail(uid, email)
        by_uid == uid # <<>>
    IN  IF plan \notin DOMAIN PLAN_CREDITS
        THEN /\ resp' = Answer(q, [Response("finalize_checkout", 400) EXCEPT
                            !.ok = "false", !.error = "invalid_plan"])
             /\ calls' = <<>>
             /\ prev' = NoPrev
             /\ UNCHANGED <<others, fs_db, users, now, basicGrants, spends>>
        ELSE IF ident = <<>>
        THEN /\ resp' = Answer(q, [Response("finalize_checkout", 400) EXCEPT
                            !.ok = "false", !.error = "uid_or_email_required"])
             /\ calls' = <<>>
             /\ prev' = NoPrev
             /\ UNCHANGED <<others, fs_db, users, now, basicGrants, spends>>
        ELSE \E pick \in Picks(users, ident, by_uid) :
               LET r == _fs_set_user(fs_db, users, ident, plan, <<PLAN_CREDITS[plan]>>,
                                  by_uid, rawtxn, pick, fault)
               IN  /\ users' = r.users
                   /\ resp' = Answer(q, [Response("finalize_checkout", 200) EXCEPT
                                  !.ok = BoolStr(r.ret), !.fault = fault,
                                  !.reads = r.reads, !.writes = r.writes])
                   /\ calls' = << CallRecord(ident, by_uid, plan, rawtxn,
                                             BoolStr(r.ret), r.doc, r.granted) >>
                   /\ prev' = PrevAfter(r, plan, rawtxn)
                   /\ basicGrants' = GrantsAfter(r, plan)
                   /\ UNCHANGED <<others, fs_db, now, spends>>

finalize_checkout ==
    \E id \in Identities, rawplan \in RawPlans, rawtxn \in 0 .. MaxTxns, fault \in NoFaults :
        finalize_checkout_body(id, rawplan, rawtxn, fault)

(***************************************************************************)
(* select_basic                                                            *)
(***************************************************************************)
select_basic_rejected ==
    /\ \E r \in { Response("select_basic", 405),
                  [Response("select_basic", 400) EXCEPT
                       !.ok = "false", !.error = "invalid_json"] } :
          resp' = r
    /\ calls' = <<>>
    /\ prev' = NoPrev
    /\ UNCHANGED <<others, fs_db, users, now, basicGrants, spends>>

select_basic_body(id, fault) ==
    LET uid   == Strip(id[1])
        email == Strip(id[2])
        ident == IF uid # <<>> THEN uid ELSE email
        by_uid == uid # <<>>
    IN  IF ident = <<>>
        THEN /\ resp' = [Response("select_basic", 400) EXCEPT
                            !.ok = "false", !.error = "uid_or_email_required"]
             /\ calls' = <<>>
             /\ prev' = NoPrev
             /\ UNCHANGED <<others, fs_db, users, now, basicGrants, spends>>
        ELSE \E pick \in Picks(users, ident, by_uid) :
               LET r == _fs_set_user(fs_db, users, ident, sBasic, <<>>, by_uid, 0, pick, fault)
               IN  /\ users' = r.users
                   /\ resp' = [Response("select_basic", 200) EXCEPT
                                  !.ok = BoolStr(r.ret), !.fault = fault,
                                  !.reads = r.reads, !.writes = r.writes]
                   /\ calls' = << CallRecord(ident, by_uid, sBasic, 0,
                                             BoolStr(r.ret), r.doc, r.granted) >>
                   /\ prev' = NoPrev
                   /\ basicGrants' = GrantsAfter(r, sBasic)
                   /\ UNCHANGED <<others, fs_db, now, spends>>

select_basic ==
    \E id \in Identities, fault \in NoFaults : select_basic_body(id, fault)

(***************************************************************************)
(* confirm_plan                                                            *)
(***************************************************************************)
\* positional arguments of the call _fs_set_user(uid, plan, credits, by_uid=True)
ConfirmPlanArgs == 3

\* return HttpResponseBadRequest(...): the name is never imported
BadRequest(op) ==
    IF NameBound("HttpResponseBadRequest") THEN Response(op, 400)
    ELSE Raised(op, "NameError", 0, 0)

\* the plan labels confirm_plan accepts, compared as sent
ConfirmPlans == {sPro, sPremium, sBasic}

confirm_plan_body(method, parses, uid, plan, fault) ==
    IF method # "POST" \/ ~parses \/ uid = <<>> \/ plan \notin ConfirmPlans
    THEN /\ resp' = BadRequest("confirm_plan")
         /\ calls' = <<>>
         /\ prev' = NoPrev
         /\ UNCHANGED <<others, fs_db, users, now, basicGrants, spends>>
    ELSE IF ~CallBinds(ConfirmPlanArgs)
    THEN /\ resp' = Raised("confirm_plan", "TypeError", 0, 0)
         /\ calls' = << CallRecord(uid, TRUE, plan, 0, "TypeError", <<>>, FALSE) >>
         /\ prev' = NoPrev
         /\ UNCHANGED <<others, fs_db, users, now, basicGrants, spends>>
    ELSE LET credits == IF plan = sPro THEN CreditsPro
                        ELSE IF plan = sPremium THEN CreditsPremium ELSE CreditsBasic
             r == _fs_set_user(fs_db, users, uid, plan, <<credits>>, TRUE, 0, uid, fault)
         IN  /\ users' = r.users
             /\ resp' = [Response("confirm_plan", 200) EXCEPT
                            !.ok = BoolStr(r.ret), !.reads = r.reads, !.writes = r.writes]
             /\ calls' = << CallRecord(uid, TRUE, plan, 0, BoolStr(r.ret), r.doc, r.granted) >>
             /\ prev' = NoPrev
             /\ basicGrants' = GrantsAfter(r, plan)
             /\ UNCHANGED <<others, fs_db, now, spends>>

\* confirm_plan requests: (method, body parses, uid, plan)
ConfirmRequests ==
    { <<"GET", TRUE, U1, sPro>>, <<"POST", FALSE, <<>>, <<>> >>,
      <<"POST", TRUE, <<>>, sPro>>, <<"POST", TRUE, U1, <<"p","r","o">> >> }
    \cup { <<"POST", TRUE, U1, p>> : p \in ConfirmPlans }

confirm_plan ==
    \E rq \in ConfirmRequests, fault \in NoFaults :
        confirm_plan_body(rq[1], rq[2], rq[3], rq[4], fault)

(***************************************************************************)
(* paddle_webhook                                                          *)
(***************************************************************************)
\* positional arguments of the calls _fs_set_user(uid, plan, credits, by_uid=True)
\* and _fs_set_user(email, plan, credits, by_uid=False)
WebhookArgs == 3

\* the two ledger calls of the webhook, were they to bind: by uid when there is
\* one, then by email when that did not update and there is an email. The
\* webhook passes no transaction_id.
WebhookUpdate(db, us, uid, email, plan, credits, pick, fault) ==
    LET r1 == IF uid # <<>>
              THEN _fs_set_user(db, us, uid, plan, <<credits>>, TRUE, 0, pick, fault)
              ELSE FsFailed(us, 0)
        r2 == IF ~r1.ret /\ email # <<>>
              THEN _fs_set_user(db, r1.users, email, plan, <<credits>>, FALSE, 0, pick, fault)
              ELSE r1
    IN  [r2 EXCEPT !.reads = IF ~r1.ret /\ email # <<>> THEN r1.reads + r2.reads ELSE r1.reads,
                   !.writes = IF ~r1.ret /\ email # <<>> THEN r1.writes + r2.writes ELSE r1.writes]

\* whether the payload carries a plan label: in custom_data or metadata, in a
\* passthrough object, or in the price or product name
PlanLabelled(data) ==
    LET pt == _decode_passthrough(PtOr(data.passthrough,
                  PtOr(data.checkout_passthrough, data.transaction_passthrough)))
    IN  \/ StrOr(data.cd_plan, data.md_plan) # <<>>
        \/ pt.kind = "object" /\ DictGet(pt.pairs, kPlan) # <<>>
        \/ _infer_plan_from_names(data) # <<>>

\* what paddle_webhook reads from the payload of rq: the event type, and
\* (uid, email, plan) with the plan inferred from the names when it is not
\* given, and the credits detected for it
WebhookParse(rq) ==
    LET data == EventDataOf(rq)
        idp == _get_identity_and_plan(data)
        plan == IF idp.plan # <<>> THEN idp.plan ELSE _infer_plan_from_names(data)
    IN  [event_type |-> EventTypeOf(rq), raises |-> idp.raises,
         uid |-> idp.uid, email |-> idp.email, plan |-> plan,
         credits |-> _detect_credits(plan, data),
         labelled |-> PlanLabelled(data)]

\* the webhook for the request rq, idp being WebhookParse(rq)
paddle_webhook_body(rq, idp, pick, fault) ==
    LET q == [method |-> rq.method, parses |-> rq.parses, event_type |-> idp.event_type,
              labelled |-> idp.labelled, uid |-> idp.uid, email |-> idp.email,
              plan |-> idp.plan, credits |-> idp.credits]
        event_type == idp.event_type
        plan == idp.plan
        credits == idp.credits
        ident == IF idp.uid # <<>> THEN idp.uid ELSE idp.email
        r == WebhookUpdate(fs_db, users, idp.uid, idp.email, plan, credits, pick, fault)
    IN  /\ prev' = NoPrev
        /\ UNCHANGED <<others, fs_db, now, spends>>
        /\ IF rq.method # "POST" \/ ~rq.parses
           THEN /\ resp' = Answer(q, BadRequest("paddle_webhook"))
                /\ calls' = <<>>
                /\ UNCHANGED <<users, basicGrants>>
           ELSE IF event_type \notin interesting
           THEN /\ resp' = Answer(q, [Response("paddle_webhook", 200) EXCEPT
                               !.ok = "true", !.ignored = event_type])
                /\ calls' = <<>>
                /\ UNCHANGED <<users, basicGrants>>
           ELSE IF idp.raises
           THEN /\ resp' = Answer(q, Raised("paddle_webhook", "AttributeError", 0, 0))
                /\ calls' = <<>>
                /\ UNCHANGED <<users, basicGrants>>
           ELSE IF plan = <<>>
           THEN /\ resp' = Answer(q, [Response("paddle_webhook", 200) EXCEPT
                               !.ok = "true", !.ignored = "unknown_plan"])
                /\ calls' = <<>>
                /\ UNCHANGED <<users, basicGrants>>
           ELSE IF ident = <<>>
           THEN /\ resp' = Answer(q, [Response("paddle_webhook", 200) EXCEPT
                               !.ok = "true", !.no_user = "true"])
                /\ calls' = <<>>
                /\ UNCHANGED <<users, basicGrants>>
           ELSE IF ~CallBinds(WebhookArgs)
           THEN /\ resp' = Answer(q, Raised("paddle_webhook", "TypeError", 0, 0))
                /\ calls' = << CallRecord(ident, idp.uid # <<>>, plan, 0,
                                          "TypeError", <<>>, FALSE) >>
                /\ UNCHANGED <<users, basicGrants>>
           ELSE /\ users' = r.users
                /\ resp' = Answer(q, IF r.ret
                           THEN [Response("paddle_webhook", 200) EXCEPT
                                    !.ok = "true", !.reads = r.reads, !.writes = r.writes]
                           ELSE [Response("paddle_webhook", 200) EXCEPT
                                    !.ok = "true", !.no_user = "true",
                                    !.reads = r.reads, !.writes = r.writes])
                /\ calls' = << CallRecord(ident, idp.uid # <<>>, plan, 0,
                                          BoolStr(r.ret), r.doc, r.granted) >>
                /\ basicGrants' = GrantsAfter(r, plan)

\* Webhook deliveries. A delivery in the Paddle Billing shape:
\* {"event": {"type": etype, "data": data}}
Delivery(etype, data) ==
    [method |-> "POST", parses |-> TRUE, type_key |-> "type", etype |-> etype,
     data_key |-> "data", inner |-> data, outer |-> NoData]

\* passthrough objects, as (key, value) pairs in order
PtUid     == << <<kUid, U1>> >>
PtUidPlan == << <<kUid, U1>>, <<kPlan, <<"p","r","e","m","i","u","m">> >> >>

\* passthrough values as Paddle may deliver them
Passthroughs ==
    { PtNone,
      PtDict(PtUidPlan),
      PtStr(JsonDumps(PtUid, FALSE)),
      PtStr(B64Encode(EncodeUtf8(JsonDumps(PtUidPlan, TRUE)))),
      PtStr(<<"1","2">>) }

EventTypes == interesting \cup {"subscription.canceled", "invoice.paid"}

WebhookRequests ==
    \* every event type, for a payload that names plan, user and address
    { Delivery(t, [NoData EXCEPT !.cd_plan = <<"p","r","o">>,
                                 !.passthrough = PtDict(PtUid),
                                 !.customer_email = EmailOf(U1)]) : t \in EventTypes }
    \cup
    \* a completed transaction with the plan, the passthrough and the address varied
    { Delivery("transaction.completed",
               [NoData EXCEPT !.cd_plan = p, !.passthrough = pt, !.customer_email = e]) :
        p \in {<<>>, <<"p","r","o">>, <<"g","o","l","d">>},
        pt \in Passthroughs,
        e \in {<<>>, EmailOf(U1)} }
    \cup
    \* the plan only in the price name, the product name or the amount
    { Delivery("subscription.activated", d) :
        d \in { [NoData EXCEPT !.price_name = <<"P","r","o"," ","M">>,
                               !.billing_email = EmailOf(U1)],
                [NoData EXCEPT !.product_name = <<"p","r","e","m","i","u","m">>,
                               !.transaction_passthrough = PtDict(PtUid)],
                [NoData EXCEPT !.grand_total = NumAmount(646),
                               !.checkout_passthrough = PtDict(PtUid)] } }
    \cup
    \* other envelopes: the event is the payload, keyed by name; no type; no data
    { [Delivery("checkout.completed", [NoData EXCEPT !.md_plan = <<"p","r","o">>])
          EXCEPT !.type_key = "name", !.data_key = "object"],
      [Delivery("checkout.completed", NoData) EXCEPT !.type_key = "none"],
      [Delivery("checkout.completed", NoData) EXCEPT
          !.data_key = "none",
          !.outer = [NoData EXCEPT !.md_plan = <<"P","R","E","M","I","U","M">>,
                                   !.customer_email_flat = EmailNobody]] }
    \cup
    \* not a POST; a body that is no JSON
    { [Delivery("transaction.completed", NoData) EXCEPT !.method = "GET"],
      [Delivery("transaction.completed", NoData) EXCEPT !.parses = FALSE] }

\* each delivery with what the webhook reads from it
WebhookInputs == { <<rq, WebhookParse(rq)>> : rq \in WebhookRequests }

paddle_webhook ==
    \E in \in WebhookInputs, fault \in NoFaults :
      \E pick \in Picks(users, in[2].email, FALSE) :
        paddle_webhook_body(in[1], in[2], pick, fault)

(***************************************************************************)
(* refresh_credits                                                         *)
(***************************************************************************)
\* timedelta(hours=24)
RefillHours == 24

\* every request of a paid user is refilled, whatever the balance and the stamp
MutRefreshUpdatesAlwaysRefills(doc, t) ==
    LET plan == Title(doc.subscriptionPlan)
    IN  [keys |-> IF plan \in PAID_PLANS THEN {"credits", "creditDepletedAt"} ELSE {},
         subscriptionSelected |-> TRUE, subscriptionPlan |-> <<>>,
         creditDepletedAt |-> NoStamp,
         credits |-> PlanCreditsGet(plan), freeBasicGranted |-> FALSE, dotted |-> 0,
         lastPaidTxn |-> 0]

\* the updates refresh_credits stages for doc at time t, once now is computed
RefreshUpdates(doc, t) ==
    LET plan == Title(doc.subscriptionPlan)
        heal == plan \in PAID_PLANS /\ ~doc.subscriptionSelected
        empty == plan \in PAID_PLANS /\ doc.credits <= 0
        stamp == doc.creditDepletedAt
        base == [keys |-> IF heal THEN {"subscriptionSelected"} ELSE {},
                 subscriptionSelected |-> TRUE, subscriptionPlan |-> <<>>,
                 creditDepletedAt |-> NoStamp,
                 credits |-> 0, freeBasicGranted |-> FALSE, dotted |-> 0, lastPaidTxn |-> 0]
    IN  IF ~empty THEN base
        ELSE IF stamp.kind = "none"
        THEN [base EXCEPT !.keys = @ \cup {"creditDepletedAt"},
                          !.creditDepletedAt = StampAt(t)]
        ELSE IF stamp.kind = "bad" \/ t - stamp.at >= RefillHours
        THEN [base EXCEPT !.keys = @ \cup {"credits", "creditDepletedAt"},
                          !.credits = PlanCreditsGet(plan),
                          !.creditDepletedAt = NoStamp]
        ELSE base

\* whether the request reaches "now = datetime.utcnow()"
RefreshNeedsClock(doc) ==
    Title(doc.subscriptionPlan) \in PAID_PLANS /\ doc.credits <= 0

refresh_credits_rejected ==
    /\ \E r \in { Response("refresh_credits", 405),
                  [Response("refresh_credits", 400) EXCEPT
                       !.ok = "false", !.error = "invalid_json"] } :
          resp' = r
    /\ calls' = <<>>
    /\ prev' = NoPrev
    /\ UNCHANGED <<others, fs_db, users, now, basicGrants, spends>>

refresh_credits_body(id, pick, fault) ==
    LET q     == [uid |-> id[1], email |-> id[2]]
        uid   == Strip(id[1])
        email == Strip(id[2])
        ident == IF uid # <<>> THEN uid ELSE email
        ref   == IF uid # <<>> THEN uid ELSE pick
        doc   == users[ref]
        nreads == IF uid # <<>> THEN 1 ELSE 2
        updates == RefreshUpdates(doc, now)
    IN  /\ calls' = <<>>
        /\ prev' = NoPrev
        /\ UNCHANGED <<others, fs_db, now, basicGrants, spends>>
        /\ IF ident = <<>>
           THEN /\ resp' = Answer(q, [Response("refresh_credits", 400) EXCEPT
                               !.ok = "false", !.error = "uid_or_email_required"])
                /\ users' = users
           ELSE IF fs_db = "None"
           THEN /\ resp' = Answer(q, [Response("refresh_credits", 500) EXCEPT
                               !.ok = "false", !.error = "fs_unavailable"])
                /\ users' = users
           ELSE IF fault = "read"
           THEN /\ resp' = Answer(q, Raised("refresh_credits", "StoreError", 1, 0))
                /\ users' = users
           ELSE IF uid = <<>> /\ EmailQuery(users, email) = {}
           THEN /\ resp' = Answer(q, [Response("refresh_credits", 200) EXCEPT
                               !.ok = "false", !.updated = "false", !.reads = 1])
                /\ users' = users
           ELSE IF RefreshNeedsClock(doc) /\ ~NameBound("datetime")
           THEN /\ resp' = Answer(q, Raised("refresh_credits", "NameError", nreads, 0))
                /\ users' = users
           ELSE IF updates.keys = {}
           THEN /\ resp' = Answer(q, [Response("refresh_credits", 200) EXCEPT
                               !.ok = "true", !.updated = "false", !.reads = nreads])
                /\ users' = users
           ELSE IF fault = "write"
           THEN /\ resp' = Answer(q, Raised("refresh_credits", "StoreError", nreads, 1))
                /\ users' = users
           ELSE /\ resp' = Answer(q, [Response("refresh_credits", 200) EXCEPT
                               !.ok = "true", !.updated = "true",
                               !.reads = nreads, !.writes = 1])
                /\ users' = [users EXCEPT ![ref] = MergeSet(doc, updates)]

refresh_credits ==
    \E id \in Identities, fault \in NoFaults :
      \E pick \in Picks(users, Strip(id[2]), Strip(id[1]) # <<>>) :
        refresh_credits_body(id, pick, fault)

(***************************************************************************)
(* The environment: the client spends credits.                             *)
(***************************************************************************)
ConsumeCredit ==
    /\ spends < MaxSpends
    /\ \E d \in Uids :
         /\ users[d].exists
         /\ users[d].credits > 0
         /\ \E left \in {users[d].credits - 1, 0} :
              users' = [users EXCEPT ![d].credits = left]
    /\ spends' = spends + 1
    /\ resp' = Response("spend", 0)
    /\ calls' = <<>>
    /\ UNCHANGED <<others, fs_db, now, prev, basicGrants>>

(***************************************************************************)
(* Initial states: the store as other clients may have left it.            *)
(***************************************************************************)
\* a document of account d with the given plan, balance, processed
\* transactions and depletion stamp
InitDoc(d, plan, credits, txns, stamp) ==
    [NoDoc EXCEPT !.exists = TRUE, !.email = EmailOf(d), !.subscriptionPlan = plan,
                  !.subscriptionSelected = TRUE, !.credits = credits,
                  !.processedTxns = txns, !.creditDepletedAt = stamp]

InitDocs(d) ==
    { NoDoc,
      [NoDoc EXCEPT !.exists = TRUE, !.email = EmailOf(d)],
      [InitDoc(d, sBasic, CreditsBasic, {}, NoStamp) EXCEPT !.freeBasicGranted = TRUE],
      InitDoc(d, sPro, CreditsPro, {}, NoStamp),
      InitDoc(d, sPro, CreditsPro, {1}, NoStamp),
      InitDoc(d, sPro, 0, {}, NoStamp),
      InitDoc(d, sPro, 0, {}, StampAt(0)),
      InitDoc(d, sPremium, 0, {}, StampAt(0 - (RefillHours + 1))),
      InitDoc(d, sPro, 0, {}, BadStamp),
      InitDoc(d, sPremium, 0, {}, NoStamp),
      [InitDoc(d, sPro, CreditsPro, {}, NoStamp) EXCEPT !.subscriptionSelected = FALSE],
      InitDoc(d, <<"p","r","o">>, 0, {}, NoStamp),
      [InitDoc(d, sPro, CreditsPro, {}, NoStamp) EXCEPT !.freeBasicGranted = TRUE] }

\* the document of the other user
OtherDoc(d) == InitDoc(d, sPremium, CreditsPremium, {}, NoStamp)

Init ==
    /\ fs_db \in {"client", "None"}
    /\ \E doc \in InitDocs(U1) : users = (U1 :> doc) @@ (U2 :> OtherDoc(U2))
    /\ now = 0
    /\ resp = Response("none", 0)
    /\ calls = <<>>
    /\ prev = NoPrev
    /\ basicGrants = [d \in Uids |-> IF users[d].freeBasicGranted THEN 1 ELSE 0]
    /\ spends = 0
    /\ ptok = NoPt /\ txt = NoTxt /\ llm = NoLlm /\ gen = NoGen /\ rev = NoRev /\ inflight = NoInflight

Next ==
    \/ finalize_checkout_rejected
    \/ finalize_checkout
    \/ select_basic_rejected
    \/ select_basic
    \/ confirm_plan
    \/ paddle_webhook
    \/ refresh_credits_rejected
    \/ refresh_credits
    \/ ConsumeCredit

Spec == Init /\ [][Next]_vars

(***************************************************************************)
(* Properties of the ledger.                                               *)
(***************************************************************************)
\* the last request made exactly one ledger call, and it returned True
LedgerCallDone(cs) == Len(cs) = 1 /\ cs[1].outcome = "true"

\* C1: two ledger updates in sequence with the same paid plan and the same
\* non-empty transaction id: the second one leaves credits as it finds them,
\* whatever was spent in between, and does not grow the processed transactions
\* (neither the processedTxns map nor the fields written for it).
C1_SecondCallIsNoOp ==
    [][ ( /\ prev.txn # 0
          /\ prev.plan \in PAID_PLANS
          /\ LedgerCallDone(calls')
          /\ calls'[1].doc = prev.doc
          /\ calls'[1].plan = prev.plan
          /\ calls'[1].txn = prev.txn )
        => /\ users'[prev.doc].credits = users[prev.doc].credits
           /\ users'[prev.doc].processedTxns = users[prev.doc].processedTxns
           /\ users'[prev.doc].dottedTxns = users[prev.doc].dottedTxns ]_vars

\* C2: the Basic free pack is granted at most once per account, and once
\* freeBasicGranted is true a Basic update leaves credits as they are.
C2_BasicGrantedOnce ==
    /\ [](\A d \in Uids : basicGrants[d] <= 1)
    /\ [][ \A d \in Uids :
             ( /\ users[d].freeBasicGranted
               /\ LedgerCallDone(calls')
               /\ calls'[1].plan = sBasic
               /\ calls'[1].doc = d )
             => /\ users'[d].credits = users[d].credits
                /\ users'[d].freeBasicGranted ]_vars

\* a Basic update went through on an account that had its free pack already,
\* and the balance is not the free pack
C2_Witness ==
    \E d \in Uids :
        /\ LedgerCallDone(calls)
        /\ calls[1].plan = sBasic /\ calls[1].doc = d /\ ~calls[1].granted
        /\ basicGrants[d] = 1
        /\ users[d].subscriptionPlan = sBasic
        /\ users[d].credits # CreditsBasic

\* the account a webhook delivery names: by uid, or by the e-mail of a document
WebhookNames(c, d) == c.ident = d \/ (~c.by_uid /\ users[d].exists /\ c.ident = users[d].email)

\* C3: an allowed paid-plan webhook event for a user is processed, its first
\* delivery grants the pack, and a repeated delivery of it does not write
\* credits.
C3_WebhookGrantsOnce ==
    [][ \A d \in Uids :
          ( /\ resp'.op = "paddle_webhook"
            /\ Len(calls') = 1
            /\ calls'[1].plan \in PAID_PLANS
            /\ users[d].exists
            /\ fs_db = "client"
            /\ WebhookNames(calls'[1], d) )
          => /\ resp'.status = 200
             /\ users'[d].subscriptionPlan = calls'[1].plan
             /\ IF resp.op = "paddle_webhook" /\ calls = calls'
                THEN users'[d].credits = users[d].credits
                ELSE users'[d].credits = PLAN_CREDITS[calls'[1].plan] ]_vars

\* C4: a ledger update that returned True leaves the record selected, on the
\* plan passed in and with no depletion stamp, whether or not it granted.
C4_StagedFieldsWritten ==
    \A i \in DOMAIN calls :
        calls[i].outcome = "true"
        => /\ users[calls[i].doc].exists
           /\ users[calls[i].doc].subscriptionSelected
           /\ users[calls[i].doc].subscriptionPlan = calls[i].plan
           /\ users[calls[i].doc].creditDepletedAt = NoStamp

\* a ledger update returned True without granting, and changed the plan
C4_Witness ==
    /\ LedgerCallDone(calls)
    /\ ~calls[1].granted
    /\ calls[1].plan \in {sBasic, sPro}
    /\ users[calls[1].doc].subscriptionPlan = calls[1].plan
    /\ users[calls[1].doc].credits # PLAN_CREDITS[calls[1].plan]

\* the allow-list of event types
AllowList == {"transaction.completed", "subscription.activated",
              "subscription.payment_succeeded", "checkout.completed"}

\* C8: a webhook event whose type is not in the allow-list is answered 200 with
\* {ok: true, ignored: <event type>}, no store access is attempted and no user
\* record changes.
C8_OtherEventsIgnored ==
    [][ ( /\ resp'.op = "paddle_webhook"
          /\ resp'.req.method = "POST" /\ resp'.req.parses
          /\ resp'.req.event_type \notin AllowList )
        => /\ resp'.status = 200
           /\ resp'.ok = "true"
           /\ resp'.ignored = resp'.req.event_type
           /\ resp'.reads = 0 /\ resp'.writes = 0
           /\ calls' = <<>>
           /\ users' = users ]_vars

\* a paid invoice was delivered and ignored
C8_Witness ==
    /\ resp.op = "paddle_webhook"
    /\ resp.req.event_type = "invoice.paid"
    /\ resp.ignored = "invoice.paid"
    /\ resp.status = 200

\* C9: finalize_checkout with a uid that has no record and the plan "pro" in
\* any letter case, the store being available, answers {ok: true} and leaves
\* the record of that uid on plan "Pro" with 200 credits and selected.
C9_FinalizeCreatesPro ==
    [][ \A d \in Uids :
          ( /\ resp'.op = "finalize_checkout"
            /\ resp'.req # NoReq
            /\ Strip(resp'.req.uid) = d
            /\ Lower(Strip(resp'.req.plan)) = <<"p","r","o">>
            /\ ~users[d].exists
            /\ fs_db = "client" )
          => /\ resp'.status = 200 /\ resp'.ok = "true"
             /\ users'[d].exists
             /\ users'[d].subscriptionPlan = sPro
             /\ users'[d].credits = 200
             /\ users'[d].subscriptionSelected ]_vars

\* the checkout of a new uid was finalized with the plan sent in upper case
C9_Witness ==
    /\ resp.op = "finalize_checkout"
    /\ resp.req # NoReq
    /\ resp.req.plan = <<" ","P","R","O"," ">>
    /\ resp.ok = "true"
    /\ LedgerCallDone(calls) /\ calls[1].by_uid
    /\ users[calls[1].doc].subscriptionPlan = sPro
    /\ users[calls[1].doc].credits = 200
    /\ users[calls[1].doc].email = <<>>

\* the document a refresh_credits request q is about
RefreshTarget(q, d) ==
    \/ Strip(q.uid) = d
    \/ /\ Strip(q.uid) = <<>>
       /\ Strip(q.email) # <<>>
       /\ EmailQuery(users, Strip(q.email)) = {d}

\* C10: refresh_credits for a user on a paid plan with no credits and no stored
\* creditDepletedAt answers {ok: true, updated: true}, stores the current time in
\* creditDepletedAt and leaves credits at 0.
C10_RefreshStampsDepletion ==
    [][ \A d \in Uids :
          ( /\ resp'.op = "refresh_credits"
            /\ resp'.req # NoReq
            /\ RefreshTarget(resp'.req, d)
            /\ fs_db = "client"
            /\ users[d].exists
            /\ users[d].subscriptionPlan \in PAID_PLANS
            /\ users[d].credits = 0
            /\ users[d].creditDepletedAt = NoStamp )
          => /\ resp'.status = 200
             /\ resp'.ok = "true" /\ resp'.updated = "true"
             /\ users'[d].creditDepletedAt = StampAt(now)
             /\ users'[d].credits = 0 ]_vars

\* C11: for a paid user with credits <= 0 and a stored creditDepletedAt that
\* is at least 24 hours old, refresh_credits sets credits to the default pack
\* of the plan (200 for Pro, 1000 for Premium) and creditDepletedAt to null.
C11_RefreshRefillsAfterDay ==
    [][ \A d \in Uids :
          ( /\ resp'.op = "refresh_credits"
            /\ resp'.req # NoReq
            /\ RefreshTarget(resp'.req, d)
            /\ fs_db = "client"
            /\ users[d].exists
            /\ users[d].subscriptionPlan \in PAID_PLANS
            /\ users[d].credits <= 0
            /\ users[d].creditDepletedAt.kind = "ts"
            /\ now - users[d].creditDepletedAt.at >= RefillHours )
          => /\ resp'.status = 200
             /\ users'[d].credits = PlanCreditsGet(users[d].subscriptionPlan)
             /\ users'[d].creditDepletedAt = NoStamp ]_vars

\* C13: whatever the requests to paddle_webhook, confirm_plan,
\* finalize_checkout, select_basic and refresh_credits carry, a subscriptionPlan
\* they store in a user record is one of Basic, Pro, Premium.
C13_StoredPlanIsKnown ==
    [][ \A d \in Uids :
          users'[d].subscriptionPlan # users[d].subscriptionPlan
          => users'[d].subscriptionPlan \in {sBasic, sPro, sPremium} ]_vars

\* an endpoint moved u1 to Premium (no document starts as Premium with the
\* free pack claimed) and a webhook delivery of an allowed type, which reached
\* its ledger call, has been answered since
C13_Witness ==
    /\ resp.op = "paddle_webhook"
    /\ resp.req # NoReq
    /\ resp.req.event_type \in interesting
    /\ resp.status = 500
    /\ users[U1].exists
    /\ users[U1].subscriptionPlan = sPremium
    /\ users[U1].freeBasicGranted

\* C15: finalize_checkout answers 400 and writes nothing when the plan, trimmed
\* and title-cased, is not one of Basic, Pro, Premium, or when uid and email
\* are both empty; every other JSON POST makes exactly one ledger update, by
\* uid when a uid is given and by email otherwise.
C15_FinalizeValidatesThenUpdatesOnce ==
    [][ ( resp'.op = "finalize_checkout" /\ resp'.req # NoReq )
        => LET uid   == Strip(resp'.req.uid)
               email == Strip(resp'.req.email)
               plan  == Title(Strip(resp'.req.plan))
           IN  IF plan \notin {sBasic, sPro, sPremium} \/ (uid = <<>> /\ email = <<>>)
               THEN /\ resp'.status = 400
                    /\ calls' = <<>>
                    /\ resp'.writes = 0
                    /\ users' = users
               ELSE /\ resp'.status = 200
                    /\ Len(calls') = 1
                    /\ calls'[1].plan = plan
                    /\ calls'[1].by_uid = (uid # <<>>)
                    /\ calls'[1].ident = IF uid # <<>> THEN uid ELSE email
                    /\ resp'.writes <= 1
                    /\ \A d \in Uids : users'[d] # users[d] => d = calls'[1].doc ]_vars

\* a paid checkout with a transaction id, finalized by uid although an
\* address came with it
C15_Witness ==
    /\ resp.op = "finalize_checkout"
    /\ resp.req # NoReq
    /\ resp.req.uid # <<>> /\ resp.req.email # <<>>
    /\ LedgerCallDone(calls) /\ calls[1].by_uid
    /\ prev # NoPrev

\* C16: paddle_webhook answers every parsable POST whose event type is in the
\* allow-list with HTTP 200, whatever its identity and plan fields hold and
\* whether or not the store is available.
C16_AllowedEventsAnswered200 ==
    [][ ( /\ resp'.op = "paddle_webhook"
          /\ resp'.req # NoReq
          /\ resp'.req.method = "POST"
          /\ resp'.req.parses
          /\ resp'.req.event_type \in interesting )
        => resp'.status = 200 ]_vars

C25_UnparsableStampRefills ==
    [][ \A d \in Uids :
          ( /\ resp'.op = "refresh_credits"
            /\ resp'.req # NoReq
            /\ RefreshTarget(resp'.req, d)
            /\ fs_db = "client"
            /\ users[d].exists
            /\ users[d].subscriptionPlan \in PAID_PLANS
            /\ users[d].credits <= 0
            /\ users[d].creditDepletedAt = BadStamp )
          => /\ resp'.status = 200
             /\ resp'.ok = "true" /\ resp'.updated = "true"
             /\ users'[d].credits = PlanCreditsGet(users[d].subscriptionPlan)
             /\ users'[d].creditDepletedAt = NoStamp ]_vars

\* the requests of C26: refresh_credits for the existing record d
RefreshOf(d) ==
    /\ resp'.op = "refresh_credits"
    /\ resp'.req # NoReq
    /\ RefreshTarget(resp'.req, d)
    /\ fs_db = "client"
    /\ users[d].exists

\* C26: refresh_credits for a user whose stored plan is Pro or Premium and
\* whose subscriptionSelected is false or absent sets subscriptionSelected to
\* true and reports updated: true, whatever the balance; for a plan that is not
\* paid it never writes subscriptionSelected.
C26_RefreshHealsSelectedFlag ==
    [][ /\ \A d \in Uids :
             ( /\ RefreshOf(d)
               /\ users[d].subscriptionPlan \in PAID_PLANS
               /\ ~users[d].subscriptionSelected )
             => /\ resp'.status = 200
                /\ resp'.ok = "true" /\ resp'.updated = "true"
                /\ users'[d].subscriptionSelected
        /\ \A d \in Uids :
             ( /\ resp'.op = "refresh_credits"
               /\ Title(users[d].subscriptionPlan) \notin PAID_PLANS )
             => users'[d].subscriptionSelected = users[d].subscriptionSelected ]_vars

\* what does hold: the flag is healed when the balance is positive, and never
\* written for a plan that is not paid
RefreshHealsWithBalance ==
    [][ /\ \A d \in Uids :
             ( /\ RefreshOf(d)
               /\ users[d].subscriptionPlan \in PAID_PLANS
               /\ ~users[d].subscriptionSelected
               /\ users[d].credits > 0 )
             => /\ resp'.status = 200
                /\ resp'.ok = "true" /\ resp'.updated = "true"
                /\ users'[d].subscriptionSelected
        /\ \A d \in Uids :
             ( /\ resp'.op = "refresh_credits"
               /\ Title(users[d].subscriptionPlan) \notin PAID_PLANS )
             => users'[d].subscriptionSelected = users[d].subscriptionSelected ]_vars

\* the flag of a Pro user with a positive balance was healed
FlagHealed ==
    /\ resp.op = "refresh_credits"
    /\ resp.updated = "true"
    /\ users[U1].subscriptionSelected
    /\ users[U1].subscriptionPlan = sPro
    /\ users[U1].credits > 0
    /\ users[U1].credits < CreditsPro

\* the deliveries of C27 and C28: a POST of an allowed event type whose body
\* is JSON
AllowedDelivery(r) ==
    /\ r.op = "paddle_webhook"
    /\ r.req # NoReq
    /\ r.req.method = "POST"
    /\ r.req.parses
    /\ r.req.event_type \in AllowList

\* C27: for an allowed webhook event with a determined plan the ledger update
\* is tried by uid first, and by email only when no uid was extracted or the
\* update by uid returned failure, so that at most one update succeeds; when
\* none succeeds the answer is 200 with {ok: true, no_user: true}.
C27_UidThenEmailElseNoUser ==
    [][ ( /\ AllowedDelivery(resp')
          /\ resp'.req.plan # <<>> )
        => /\ Cardinality({ i \in DOMAIN calls' : calls'[i].outcome = "true" }) <= 1
           /\ \A i \in DOMAIN calls' :
                 calls'[i].by_uid <=> resp'.req.uid # <<>>
           /\ (\A i \in DOMAIN calls' : calls'[i].outcome # "true")
              => /\ resp'.status = 200
                 /\ resp'.ok = "true"
                 /\ resp'.no_user = "true" ]_vars

\* what does hold: a delivery with a plan and neither uid nor email makes no
\* ledger call and is answered 200 with no_user
NoIdentityAnsweredNoUser ==
    [][ ( /\ AllowedDelivery(resp')
          /\ resp'.req.plan # <<>>
          /\ resp'.req.uid = <<>> /\ resp'.req.email = <<>> )
        => /\ calls' = <<>>
           /\ users' = users
           /\ resp'.status = 200
           /\ resp'.ok = "true"
           /\ resp'.no_user = "true" ]_vars

\* C28: an allowed webhook event from which no plan label can be determined
\* (not from custom_data, metadata or passthrough, not from the price or
\* product name) is answered 200 with {ok: true, ignored: "unknown_plan"} and
\* makes no ledger update, also when the payload carries a legacy amount that
\* maps to a credit count.
C28_UnknownPlanIgnored ==
    [][ ( /\ AllowedDelivery(resp')
          /\ ~resp'.req.labelled )
        => /\ resp'.status = 200
           /\ resp'.ok = "true"
           /\ resp'.ignored = "unknown_plan"
           /\ calls' = <<>>
           /\ users' = users ]_vars

\* what does hold: no ledger call and no write for such an event, and the
\* answer as stated whenever the passthrough is absent, a mapping or a string
\* that holds a JSON object
UnlabelledNeverUpdates ==
    [][ ( /\ AllowedDelivery(resp')
          /\ ~resp'.req.labelled )
        => /\ calls' = <<>>
           /\ users' = users
           /\ resp'.exc # "AttributeError"
              => /\ resp'.status = 200
                 /\ resp'.ok = "true"
                 /\ resp'.ignored = "unknown_plan" ]_vars

\* an event without plan label whose amount maps to 200 credits was ignored
AmountOnlyIgnored ==
    /\ AllowedDelivery(resp)
    /\ ~resp.req.labelled
    /\ resp.req.credits = 200
    /\ resp.req.uid = U1
    /\ resp.ignored = "unknown_plan"

\* no record of the store carries the email e
NoRecordWithEmail(e) == ~\E d \in Uids : users[d].exists /\ users[d].email = e

\* C29: a ledger update _fs_set_user by email whose email lookup finds no
\* record returns False and writes nothing: no record is created and every
\* existing record is unchanged.
C29_EmailMissWritesNothing ==
    [][ \A i \in DOMAIN calls' :
          ( /\ ~calls'[i].by_uid
            /\ calls'[i].outcome \in {"true", "false"}
            /\ NoRecordWithEmail(calls'[i].ident) )
          => /\ calls'[i].outcome = "false"
             /\ users' = users
             /\ resp'.writes = 0 ]_vars

\* finalize_checkout made the ledger call by an email that no record carries:
\* the store was queried once, the call returned False
C29_Witness ==
    /\ resp.op = "finalize_checkout"
    /\ fs_db = "client"
    /\ Len(calls) = 1
    /\ ~calls[1].by_uid
    /\ calls[1].ident = EmailNobody
    /\ calls[1].outcome = "false"
    /\ NoRecordWithEmail(EmailNobody)
    /\ resp.ok = "false"
    /\ resp.reads = 1 /\ resp.writes = 0

\* the successful ledger calls of a step that name a paid plan and no
\* transaction id
PlainPaidUpdates(cs) ==
    { i \in DOMAIN cs : cs[i].outcome = "true" /\ cs[i].plan \in PAID_PLANS /\ cs[i].txn = 0 }

\* a successful paid update without transaction id sets credits to the pack of
\* the plan (the amount every caller passes) and leaves processedTxns, the
\* fields written for processed transactions and lastPaidTxn as they are
PlainPaidUpdateGrants ==
    [][ \A i \in PlainPaidUpdates(calls') :
          LET d == calls'[i].doc
          IN  /\ users'[d].credits = PLAN_CREDITS[calls'[i].plan]
              /\ users'[d].subscriptionPlan = calls'[i].plan
              /\ users'[d].processedTxns = users[d].processedTxns
              /\ users'[d].dottedTxns = users[d].dottedTxns
              /\ users'[d].lastPaidTxn = users[d].lastPaidTxn ]_vars

\* C30: every successful ledger update _fs_set_user with a paid plan and no
\* transaction id sets credits to the given amount, whatever processedTxns
\* holds and however often it is repeated, and leaves processedTxns and
\* lastPaidTxn unchanged; the ledger calls of confirm_plan and paddle_webhook
\* always take this path.
C30_NoTxnAlwaysGrants ==
    /\ PlainPaidUpdateGrants
    /\ [][ ( /\ resp'.op \in {"confirm_plan", "paddle_webhook"}
             /\ calls' # <<>> )
           => \A i \in DOMAIN calls' :
                 /\ calls'[i].txn = 0
                 /\ calls'[i].outcome \in {"true", "false"}
                 /\ (calls'[i].outcome = "true" /\ calls'[i].plan \in PAID_PLANS)
                    => calls'[i].granted ]_vars

\* a paid update without transaction id granted the pack to a record that had
\* a processed transaction and a pack already
RepeatedPlainGrant ==
    /\ resp.op = "finalize_checkout"
    /\ PlainPaidUpdates(calls) # {}
    /\ calls[1].granted
    /\ users[calls[1].doc].processedTxns # {}
    /\ users[calls[1].doc].credits = PLAN_CREDITS[calls[1].plan]

(***************************************************************************)
(* The ledger under store faults: the endpoints whose calls reach           *)
(* _fs_set_user, with a store whose read or write may raise. A fault is     *)
(* the fault field of the response.                                         *)
(***************************************************************************)
finalize_checkout_store_faults ==
    \E id \in Identities, rawplan \in RawPlans, rawtxn \in 0 .. MaxTxns, fault \in Faults :
        finalize_checkout_body(id, rawplan, rawtxn, fault)

select_basic_store_faults ==
    \E id \in Identities, fault \in Faults : select_basic_body(id, fault)

NextStoreFaults ==
    \/ finalize_checkout_store_faults
    \/ select_basic_store_faults

SpecStoreFaults == Init /\ [][NextStoreFaults]_vars

\* C31: _fs_set_user never propagates an exception: when the store client is
\* unavailable or a store read or write raises, it returns False, and a call
\* that returns False has written nothing to any user record.
C31_FailuresReturnFalseWriteNothing ==
    [][ \A i \in DOMAIN calls' :
          /\ calls'[i].outcome \in {"true", "false"}
          /\ resp'.exc = "-"
          /\ (fs_db = "None" \/ resp'.fault # "none") => calls'[i].outcome = "false"
          /\ calls'[i].outcome = "false" => users' = users ]_vars

\* the merge-write of a ledger call raised: the call returned False and the
\* endpoint answered ok: false
C31_Witness ==
    /\ fs_db = "client"
    /\ resp.op = "finalize_checkout"
    /\ resp.fault = "write"
    /\ resp.writes = 1
    /\ Len(calls) = 1
    /\ calls[1].outcome = "false"
    /\ resp.status = 200
    /\ resp.ok = "false"

\* C32: a ledger update changes only the fields it stages. Over any sequence
\* of operations freeBasicGranted, once true, never becomes false, and a
\* transaction id once marked as processed is never removed; a Basic update
\* never changes processedTxns or lastPaidTxn, a paid update never changes
\* freeBasicGranted, and an update whose grant is skipped leaves credits
\* unchanged.
C32_UpdateWritesOnlyStagedFields ==
    [][ /\ \A d \in Uids :
             /\ users[d].freeBasicGranted => users'[d].freeBasicGranted
             /\ users[d].processedTxns \subseteq users'[d].processedTxns
             /\ users[d].dottedTxns \subseteq users'[d].dottedTxns
        /\ \A i \in DOMAIN calls' :
             calls'[i].outcome = "true"
             => LET d == calls'[i].doc
                IN  /\ calls'[i].plan = sBasic
                       => /\ users'[d].processedTxns = users[d].processedTxns
                          /\ users'[d].dottedTxns = users[d].dottedTxns
                          /\ users'[d].lastPaidTxn = users[d].lastPaidTxn
                    /\ calls'[i].plan \in PAID_PLANS
                       => users'[d].freeBasicGranted = users[d].freeBasicGranted
                    /\ ~calls'[i].granted
                       => users'[d].credits = users[d].credits
                    /\ \A o \in Uids \ {d} : users'[o] = users[o] ]_vars

\* a paid update for a processed transaction was skipped on a record whose
\* balance is not the pack of the plan: the processed transaction and the
\* balance are as they were
C32_Witness ==
    /\ resp.op = "finalize_checkout"
    /\ Len(calls) = 1
    /\ calls[1].outcome = "true"
    /\ calls[1].plan \in PAID_PLANS
    /\ calls[1].txn # 0
    /\ ~calls[1].granted
    /\ calls[1].txn \in users[calls[1].doc].processedTxns
    /\ users[calls[1].doc].credits # PLAN_CREDITS[calls[1].plan]

\* C36: every write to credits made by an endpoint (paddle_webhook,
\* confirm_plan, finalize_checkout, select_basic, refresh_credits) overwrites
\* the balance with exactly the default pack of the plan stored by or for that
\* update (50 Basic, 200 Pro, 1000 Premium): a grant is never added to the
\* balance before, and no amount found by _detect_credits changes what is
\* written
C36_CreditsWrittenAreThePlanPack ==
    [][ /\ resp'.op # "spend"
           => \A d \in Uids :
                users'[d].credits # users[d].credits
                => users'[d].credits = PlanCreditsGet(Title(users'[d].subscriptionPlan))
        /\ \A i \in DOMAIN calls' :
             calls'[i].outcome = "true" /\ calls'[i].granted
             => LET d == calls'[i].doc
                IN  /\ calls'[i].plan \in DOMAIN PLAN_CREDITS
                    /\ users'[d].subscriptionPlan = calls'[i].plan
                    /\ users'[d].credits = PLAN_CREDITS[calls'[i].plan] ]_vars

\* a Premium grant on a record that held the Basic pack, or a balance granted
\* beside it, of which nothing was spent: the balance is the Premium pack
C36_Witness ==
    /\ resp.op = "finalize_checkout"
    /\ Len(calls) = 1
    /\ calls[1].outcome = "true"
    /\ calls[1].granted
    /\ calls[1].plan = sPremium
    /\ users[calls[1].doc].freeBasicGranted
    /\ spends = 0
    /\ users[calls[1].doc].credits = CreditsPremium

(***************************************************************************)
(* Concurrent requests on one record. Each worker serves one request on    *)
(* the record of U1; its ref.get() and its ref.set(updates, merge=True)    *)
(* are separate steps, and the steps of the workers interleave freely.     *)
(***************************************************************************)
\* the two requests that run at once
Workers == {1, 2}

\* an empty updates dict
NoUpdates == [keys |-> {}, subscriptionSelected |-> TRUE, subscriptionPlan |-> <<>>,
              creditDepletedAt |-> NoStamp,
              credits |-> 0, freeBasicGranted |-> FALSE, dotted |-> 0, lastPaidTxn |-> 0]

\* a worker that has not yet taken a request
IdleHandler == [pc |-> "idle", op |-> "none", plan |-> <<>>, txn |-> 0,
                snap |-> NoDoc, updates |-> NoUpdates, ret |-> "-"]

\* _fs_set_user(uid, plan, credits_to_grant=PLAN_CREDITS[plan], by_uid=True,
\* transaction_id=txn) up to its write: the record is read and the updates
\* are staged from what was read
_fs_set_user_get(w) ==
    /\ inflight[w].pc = "idle"
    /\ \E plan \in DOMAIN PLAN_CREDITS, txn \in 0 .. MaxTxns :
         inflight' = [inflight EXCEPT ![w] =
                        [pc |-> "staged", op |-> "_fs_set_user", plan |-> plan,
                         txn |-> txn, snap |-> users[U1],
                         updates |-> StageUpdates(users[U1], plan,
                                                  <<PLAN_CREDITS[plan]>>, txn),
                         ret |-> "-"]]
    /\ UNCHANGED <<ledger, ptok, txt, llm, gen, rev>>

\* ref.set(updates, merge=True); return True
_fs_set_user_set(w) ==
    /\ inflight[w].pc = "staged"
    /\ inflight[w].op = "_fs_set_user"
    /\ users' = [users EXCEPT ![U1] = MergeSet(users[U1], inflight[w].updates)]
    /\ inflight' = [inflight EXCEPT ![w].pc = "done", ![w].ret = "true"]
    /\ UNCHANGED <<fs_db, now, resp, calls, prev, basicGrants, spends,
                   ptok, txt, llm, gen, rev>>

\* refresh_credits {uid} up to its write
refresh_credits_get(w) ==
    /\ inflight[w].pc = "idle"
    /\ LET doc == users[U1]
           updates == RefreshUpdates(doc, now)
           h == [IdleHandler EXCEPT !.op = "refresh_credits", !.snap = doc]
       IN  inflight' = [inflight EXCEPT ![w] =
             IF RefreshNeedsClock(doc) /\ ~NameBound("datetime")
             THEN [h EXCEPT !.pc = "done", !.ret = "NameError"]
             ELSE IF updates.keys = {}
             THEN [h EXCEPT !.pc = "done", !.ret = "unchanged"]
             ELSE [h EXCEPT !.pc = "staged", !.updates = updates]]
    /\ UNCHANGED <<ledger, ptok, txt, llm, gen, rev>>

\* ref.set(updates, merge=True) of refresh_credits
refresh_credits_set(w) ==
    /\ inflight[w].pc = "staged"
    /\ inflight[w].op = "refresh_credits"
    /\ users' = [users EXCEPT ![U1] = MergeSet(users[U1], inflight[w].updates)]
    /\ inflight' = [inflight EXCEPT ![w].pc = "done", ![w].ret = "updated"]
    /\ UNCHANGED <<fs_db, now, resp, calls, prev, basicGrants, spends,
                   ptok, txt, llm, gen, rev>>

InitConcurrent ==
    /\ fs_db = "client"
    /\ \E doc \in InitDocs(U1) : users = (U1 :> doc) @@ (U2 :> OtherDoc(U2))
    /\ now = 0
    /\ resp = Response("none", 0)
    /\ calls = <<>>
    /\ prev = NoPrev
    /\ basicGrants = [d \in Uids |-> IF users[d].freeBasicGranted THEN 1 ELSE 0]
    /\ spends = 0
    /\ ptok = NoPt /\ txt = NoTxt /\ llm = NoLlm /\ gen = NoGen /\ rev = NoRev
    /\ inflight = [w \in Workers |-> IdleHandler]

NextConcurrent ==
    \/ \E w \in Workers : _fs_set_user_get(w)
    \/ \E w \in Workers : _fs_set_user_set(w)
    \/ \E w \in Workers : refresh_credits_get(w)
    \/ \E w \in Workers : refresh_credits_set(w)
    \/ ConsumeCredit

SpecConcurrent == InitConcurrent /\ [][NextConcurrent]_vars

\* both workers have finished a ledger update of the record with the same
\* paid plan and the same transaction id, which the record did not carry as
\* processed, and the client has spent nothing meanwhile
SameTxnPair ==
    /\ \A w \in Workers :
         /\ inflight[w].pc = "done"
         /\ inflight[w].op = "_fs_set_user"
         /\ inflight[w].plan \in PAID_PLANS
         /\ inflight[w].txn # 0
         /\ inflight[w].txn \notin inflight[w].snap.processedTxns
    /\ inflight[1].plan = inflight[2].plan
    /\ inflight[1].txn = inflight[2].txn
    /\ spends = 0

\* a further update of doc with this plan and transaction id would be skipped:
\* the code's own test of "processed" (views.py:663-664)
MarkedProcessed(doc, plan, txn) ==
    "credits" \notin StageUpdates(doc, plan, <<PLAN_CREDITS[plan]>>, txn).keys

\* the record one update alone makes of the record doc
SingleUpdate(doc, plan, txn) ==
    MergeSet(doc, StageUpdates(doc, plan, <<PLAN_CREDITS[plan]>>, txn))

\* C33: when two ledger updates of one record with the same paid plan and the
\* same transaction id run concurrently, in any interleaving of their reads
\* and writes, the final record is the one a single update produces: credits
\* is one pack, and the transaction id is marked processed
C33_ConcurrentSameTxnLikeOne ==
    SameTxnPair =>
        LET plan == inflight[1].plan
            txn  == inflight[1].txn
        IN  /\ \E w \in Workers : users[U1] = SingleUpdate(inflight[w].snap, plan, txn)
            /\ users[U1].credits = PLAN_CREDITS[plan]
            /\ MarkedProcessed(users[U1], plan, txn)

\* what holds of C33: the final record is the one a single update produces and
\* its balance is one pack
SameTxnPairGrantsOnePack ==
    SameTxnPair =>
        LET plan == inflight[1].plan
            txn  == inflight[1].txn
        IN  /\ \E w \in Workers : users[U1] = SingleUpdate(inflight[w].snap, plan, txn)
            /\ users[U1].credits = PLAN_CREDITS[plan]
            /\ users[U1].lastPaidTxn = txn
            /\ txn \in users[U1].dottedTxns

\* what holds of C33: while the two updates run, the balance is never more
\* than the balance they found or one pack
SameTxnNeverAboveOnePack ==
    (/\ \A w \in Workers : /\ inflight[w].op = "_fs_set_user"
                           /\ inflight[w].plan \in PAID_PLANS
                           /\ inflight[w].txn # 0
     /\ inflight[1].plan = inflight[2].plan
     /\ inflight[1].txn = inflight[2].txn)
    => \E w \in Workers :
         \/ users[U1].credits <= inflight[w].snap.credits
         \/ users[U1].credits <= PLAN_CREDITS[inflight[w].plan]

\* the two reads both came before the first write
BothReadBeforeWrite ==
    /\ SameTxnPair
    /\ inflight[1].snap = inflight[2].snap
    /\ "credits" \in inflight[1].updates.keys
    /\ "credits" \in inflight[2].updates.keys
    /\ inflight[1].snap.credits # PLAN_CREDITS[inflight[1].plan]

\* C34: in every reachable state, under any interleaving of the reads and the
\* merge-writes of concurrent refresh_credits requests and ledger updates on
\* one record, a record whose creditDepletedAt is non-null has credits <= 0
\* and a paid plan
C34_StampNeverWithBalance ==
    \A d \in Uids :
        users[d].creditDepletedAt # NoStamp =>
            /\ users[d].credits <= 0
            /\ Title(users[d].subscriptionPlan) \in PAID_PLANS

\* a refresh_credits request has read a depleted, stamped record and ended
\* while a ledger update that read the same record has not yet written it
C34_Witness ==
    /\ users[U1].creditDepletedAt.kind = "ts"
    /\ \E w, v \in Workers :
         /\ inflight[w].op = "refresh_credits"
         /\ inflight[w].pc = "done"
         /\ inflight[w].snap = users[U1]
         /\ inflight[v].op = "_fs_set_user"
         /\ inflight[v].pc = "staged"
         /\ inflight[v].snap = users[U1]
         /\ "credits" \in inflight[v].updates.keys

\* a refresh_credits write that lands after a ledger update which it did not
\* read: it writes the healed flag only, and the grant of the update stays
RefreshWriteAfterUnreadGrant ==
    \E w, v \in Workers :
        /\ inflight[w].op = "refresh_credits"
        /\ inflight[w].ret = "updated"
        /\ inflight[v].op = "_fs_set_user"
        /\ inflight[v].pc = "done"
        /\ inflight[w].snap = inflight[v].snap
        /\ inflight[w].snap.subscriptionPlan # inflight[v].plan
        /\ users[U1].subscriptionPlan = inflight[v].plan
        /\ users[U1].credits = PLAN_CREDITS[inflight[v].plan]

(***************************************************************************)
(* The passthrough token: _decode_passthrough and _get_identity_and_plan   *)
(* applied to the tokens a checkout may attach.                            *)
(***************************************************************************)
\* the store and the last exchange, while no endpoint is called
LedgerIdle ==
    /\ fs_db = "client"
    /\ users = (U1 :> InitDoc(U1, sPro, CreditsPro, {}, NoStamp)) @@ (U2 :> OtherDoc(U2))
    /\ now = 0
    /\ resp = Response("none", 0)
    /\ calls = <<>>
    /\ prev = NoPrev
    /\ basicGrants = [d \in Uids |-> 0]
    /\ spends = 0

\* the pair (key, v) when v is given
Member(key, v) == IF v = <<>> THEN <<>> ELSE << <<key, v>> >>

\* the JSON objects {uid, email, plan} a checkout passes through, any field
\* possibly missing
PtObjects ==
    { Member(kUid, u) \o Member(kEmail, e) \o Member(kPlan, p) :
        u \in {<<>>, U1, U2},
        e \in {<<>>, EmailOf(U1)},
        p \in {<<>>, <<"p","r","o">>, sPremium} }

\* how the object is attached: base64 of its JSON text, the JSON text, or the
\* object itself; compact says whether the JSON text is written without spaces
PtForms == {"b64", "json", "dict"}

PtToken(m, form, compact) ==
    IF form = "dict" THEN PtDict(m)
    ELSE IF form = "json" THEN PtStr(JsonDumps(m, compact))
    ELSE PtStr(B64Encode(EncodeUtf8(JsonDumps(m, compact))))

InitPassthrough ==
    /\ LedgerIdle
    /\ txt = NoTxt /\ llm = NoLlm /\ gen = NoGen /\ rev = NoRev /\ inflight = NoInflight
    /\ \E m \in PtObjects, form \in PtForms, compact \in BOOLEAN :
         ptok = [stage |-> "token", m |-> m, form |-> form,
               token |-> PtToken(m, form, compact)]

\* _decode_passthrough(token)
decode_passthrough ==
    /\ ptok.stage = "token"
    /\ ptok' = [stage |-> "decoded", m |-> ptok.m, form |-> ptok.form, token |-> ptok.token,
              out |-> _decode_passthrough(ptok.token)]
    /\ UNCHANGED <<ledger, txt, llm, gen, rev, inflight>>

\* _get_identity_and_plan(data) for event data that carries the token
get_identity_and_plan ==
    /\ ptok.stage = "token"
    /\ ptok' = [stage |-> "identity", m |-> ptok.m, form |-> ptok.form, token |-> ptok.token,
              out |-> _get_identity_and_plan([NoData EXCEPT !.passthrough = ptok.token])]
    /\ UNCHANGED <<ledger, txt, llm, gen, rev, inflight>>

NextPassthrough == decode_passthrough \/ get_identity_and_plan

SpecPassthrough == InitPassthrough /\ [][NextPassthrough]_vars

\* C7: decoding the base64 encoding of the JSON text of an object m gives a
\* mapping equal to m, and the uid, email and plan of m are what
\* _get_identity_and_plan returns (the plan title-cased).
C7_Base64RoundTrip ==
    /\ (ptok.stage = "decoded" /\ ptok.form = "b64")
       => /\ ptok.out.kind = "object"
          /\ AsMapping(ptok.out.pairs) = AsMapping(ptok.m)
    /\ (ptok.stage = "identity" /\ ptok.form = "b64")
       => /\ ~ptok.out.raises
          /\ ptok.out.uid = DictGet(ptok.m, kUid)
          /\ ptok.out.email = DictGet(ptok.m, kEmail)
          /\ ptok.out.plan = Title(DictGet(ptok.m, kPlan))

\* the same for a token that is the JSON text or the object itself: these do
\* come back as sent
PlainTokensRoundTrip ==
    (ptok.stage = "decoded" /\ ptok.form # "b64")
    => /\ ptok.out.kind = "object"
       /\ AsMapping(ptok.out.pairs) = AsMapping(ptok.m)

(***************************************************************************)
(* The completion call: call_openrouter and generate_with_fallback.        *)
(* One step is one HTTP request to the upstream, with the code that runs   *)
(* until the next request or the return of generate_with_fallback.         *)
(***************************************************************************)
\* LLM_MAX_RETRIES, by default
MAX_RETRIES == 2
RETRY_STATUS == {408, 409, 425, 429, 500, 502, 503, 504}
OPENROUTER_MODEL_PRIMARY == "openai/gpt-4o-mini"
OPENROUTER_MODEL_FALLBACK == "meta-llama/llama-3.1-70b-instruct"

\* the message lists of the model
MessageLists ==
    { << [role |-> "system", content |-> "prompt"], [role |-> "user", content |-> u] >> :
        u \in {"reels for cooks", "reels for runners"} }

\* the texts a model may answer with, by name (see TextOf)
TextIds == {"script", "line", "long", "stars"}

\* What one HTTP request does: a response with a status and, when the status
\* is below 400, the content of choices[0].message ("None": no such field),
\* or one of the exceptions of requests.post. A response below 400 whose body
\* is not JSON makes resp.json() raise requests.JSONDecodeError, which is a
\* RequestException from requests 2.27 on and a plain ValueError before: json
\* names the class the except clauses see ("ok": the body is JSON).
Outcomes ==
    { [kind |-> "response", status |-> 200, content |-> c, json |-> "ok"] :
        c \in TextIds \cup {"", "None"} }
    \cup { [kind |-> "response", status |-> 200, content |-> "None", json |-> j] :
             j \in {"RequestException", "Exception"} }
    \cup { [kind |-> "response", status |-> st, content |-> "None", json |-> "ok"] :
             st \in {400, 429, 503} }
    \cup { [kind |-> k, status |-> 0, content |-> "None", json |-> "ok"] :
             k \in {"Timeout", "RequestException", "Exception"} }

\* no request made yet
NoOutcome == [kind |-> "none", status |-> 0, content |-> "None", json |-> "ok"]

\* "if content:" on an optional string
MutTruthyNotNone(content) == content # "None"

Truthy(content) == content \notin {"None", ""}

\* call_openrouter(messages, model) up to its loop
CallStart(key, messages, model) ==
    [active |-> TRUE, key |-> key, model |-> model, messages |-> messages,
     attempt |-> 0, tries |-> 0, last_status |-> 0, posts |-> 0,
     content |-> "None", error |-> "None", last |-> NoOutcome]

\* the return of call_openrouter when OPENROUTER_API_KEY is empty
NoKeyReturn(l) == [l EXCEPT !.active = FALSE, !.error = "SERVER_CONFIG"]

\* "continue" also records the error of the attempt
MutNextAttemptKeepsError(l) ==
    [l EXCEPT !.attempt = @ + 1, !.error = "UPSTREAM_ERROR"]

\* "continue": the loop goes on to the next attempt (after the backoff sleep)
NextAttempt(l) == [l EXCEPT !.attempt = @ + 1]

\* one pass of "for attempt in range(MAX_RETRIES + 1)", o being what the
\* request does: the call goes on to the next attempt, or returns. posts counts
\* the requests made and last is what the latest one did.
LoopPass(l, o) ==
    LET more == l.attempt < MAX_RETRIES
        posted == [l EXCEPT !.tries = l.attempt + 1, !.posts = @ + 1, !.last = o,
                            !.last_status = IF o.kind = "response" THEN o.status ELSE @]
        Failed(error) == [posted EXCEPT !.active = FALSE, !.error = error]
        raised == IF o.kind = "response" THEN o.json ELSE o.kind
    IN  IF o.kind = "response" /\ o.status >= 400
        THEN IF o.status \in RETRY_STATUS /\ more THEN NextAttempt(posted)
             ELSE Failed("UPSTREAM_ERROR")
        ELSE IF o.kind = "response" /\ o.json = "ok"
        THEN IF ~Truthy(o.content)
             THEN [Failed("BAD_RESPONSE") EXCEPT !.content = o.content]
             ELSE [posted EXCEPT !.active = FALSE, !.content = o.content]
        ELSE IF raised = "Timeout"
        THEN IF more THEN NextAttempt(posted) ELSE Failed("UPSTREAM_TIMEOUT")
        ELSE IF raised = "RequestException"
        THEN IF more THEN NextAttempt(posted) ELSE Failed("UPSTREAM_REQUEST_ERROR")
        ELSE Failed("SERVER_ERROR")

\* (content, meta, error) as call_openrouter returns them
Returned(l) ==
    [content |-> l.content, error |-> l.error, model |-> l.model,
     status |-> l.last_status, tries |-> l.tries, posts |-> l.posts]

\* generate_with_fallback, from the return r of a call_openrouter to its next
\* call or to its own return
Resume(g, l) ==
    LET r == Returned(l)
        rs == Append(g.returns, r)
    IN  IF g.pc = "primary"
        THEN IF Truthy(r.content)
             THEN [gen |-> [g EXCEPT !.pc = "returned", !.returns = rs,
                                     !.result = [content |-> r.content, meta |-> r.model,
                                                 err |-> <<>>]],
                   llm |-> l]
             ELSE [gen |-> [g EXCEPT !.pc = "fallback", !.returns = rs,
                                     !.invoked = Append(@, [model |-> OPENROUTER_MODEL_FALLBACK,
                                                            messages |-> g.messages])],
                   llm |-> CallStart(l.key, g.messages, OPENROUTER_MODEL_FALLBACK)]
        ELSE IF Truthy(r.content)
             THEN [gen |-> [g EXCEPT !.pc = "returned", !.returns = rs,
                                     !.result = [content |-> r.content, meta |-> r.model,
                                                 err |-> <<>>]],
                   llm |-> l]
             ELSE [gen |-> [g EXCEPT !.pc = "returned", !.returns = rs,
                                     !.result = [content |-> "None", meta |-> r.model,
                                                 err |-> <<g.returns[1].error, r.error>>]],
                   llm |-> l]

\* generate_with_fallback(messages) at its first call_openrouter
FallbackStart(messages) ==
    [pc |-> "primary", messages |-> messages,
     invoked |-> << [model |-> OPENROUTER_MODEL_PRIMARY, messages |-> messages] >>,
     returns |-> <<>>,
     result |-> [content |-> "None", meta |-> "None", err |-> <<>>]]

\* the states in which the call l may return, over every course of its requests
RECURSIVE CallReturns(_)
CallReturns(l) ==
    IF l.key = "" THEN { NoKeyReturn(l) }
    ELSE UNION { LET n == LoopPass(l, o)
                 IN  IF n.active THEN CallReturns(n) ELSE { n } : o \in Outcomes }

\* every (content, meta, err) generate_with_fallback(messages) may return
FallbackReturns(key, messages) ==
    LET first == { Resume(FallbackStart(messages), l) :
                     l \in CallReturns(CallStart(key, messages, OPENROUTER_MODEL_PRIMARY)) }
    IN  { n.gen.result : n \in { m \in first : m.gen.pc = "returned" } }
        \cup UNION { { Resume(n.gen, l).gen.result : l \in CallReturns(n.llm) } :
                       n \in { m \in first : m.gen.pc = "fallback" } }

\* OPENROUTER_API_KEY: unset, or set
ApiKeys == {"", "sk-1"}

\* the results of generate_with_fallback by API key; they do not depend on the
\* messages, which the call only passes on
GenerateResults == [ key \in ApiKeys |-> FallbackReturns(key, <<>>) ]

InitGenerate ==
    /\ LedgerIdle
    /\ ptok = NoPt /\ txt = NoTxt
    /\ \E key \in ApiKeys : llm = [active |-> FALSE, key |-> key]
    /\ gen = NoGen /\ rev = NoRev /\ inflight = NoInflight

\* generate_with_fallback(messages) up to the first HTTP request
generate_with_fallback ==
    /\ gen.pc \in {"idle", "returned"}
    /\ \E messages \in MessageLists :
         /\ gen' = FallbackStart(messages)
         /\ llm' = CallStart(llm.key, messages, OPENROUTER_MODEL_PRIMARY)
    /\ UNCHANGED <<ledger, ptok, txt, rev, inflight>>

\* a call_openrouter without API key returns at once
call_openrouter_no_key ==
    /\ gen.pc \in {"primary", "fallback"}
    /\ llm.active /\ llm.key = ""
    /\ LET n == Resume(gen, NoKeyReturn(llm))
       IN  gen' = n.gen /\ llm' = n.llm
    /\ UNCHANGED <<ledger, ptok, txt, rev, inflight>>

\* one HTTP request of call_openrouter
call_openrouter_request ==
    /\ gen.pc \in {"primary", "fallback"}
    /\ llm.active /\ llm.key # ""
    /\ \E o \in Outcomes :
         LET l == LoopPass(llm, o)
             n == Resume(gen, l)
         IN  IF l.active THEN llm' = l /\ gen' = gen
             ELSE gen' = n.gen /\ llm' = n.llm
    /\ UNCHANGED <<ledger, ptok, txt, rev, inflight>>

NextGenerate ==
    \/ generate_with_fallback
    \/ call_openrouter_no_key
    \/ call_openrouter_request

SpecGenerate == InitGenerate /\ [][NextGenerate]_vars

\* the call returned no content
NoContent(r) == r.content \in {"None", ""}

\* C5: generate_with_fallback calls the primary model first; when that call
\* returns no content it calls call_openrouter exactly once more, with the
\* fallback model and the same messages; when the primary call returns content
\* it makes no further call.
C5_FallbackExactlyOnce ==
    /\ gen.pc # "idle"
       => /\ Len(gen.invoked) \in {1, 2}
          /\ gen.invoked[1] = [model |-> OPENROUTER_MODEL_PRIMARY, messages |-> gen.messages]
          /\ Len(gen.invoked) = 2
             => /\ gen.invoked[2] = [model |-> OPENROUTER_MODEL_FALLBACK,
                                     messages |-> gen.messages]
                /\ Len(gen.returns) >= 1 /\ NoContent(gen.returns[1])
    /\ gen.pc = "returned"
       => /\ Len(gen.returns) = Len(gen.invoked)
          /\ NoContent(gen.returns[1]) => Len(gen.invoked) = 2
          /\ ~NoContent(gen.returns[1]) => Len(gen.invoked) = 1

\* the primary model was retried to exhaustion and the fallback model answered
C5_Witness ==
    /\ gen.pc = "returned"
    /\ Len(gen.returns) = 2
    /\ gen.returns[1].tries = MAX_RETRIES + 1
    /\ gen.returns[1].error = "UPSTREAM_TIMEOUT"
    /\ gen.returns[2].model = OPENROUTER_MODEL_FALLBACK
    /\ gen.result.content = "script"

\* the call in progress has made an attempt and went on to another one
Retrying == llm.active /\ llm.attempt > 0

\* C17: a call_openrouter invocation makes at most MAX_RETRIES + 1 HTTP
\* requests, stops at the first response with a status below 400, and returns
\* in tries the number of requests it made; without API key it makes no
\* request and returns tries = 0 with the error code SERVER_CONFIG.
C17_BoundedTriesStopAtSuccess ==
    /\ llm.active => llm.posts <= MAX_RETRIES + 1
    /\ Retrying => ~(llm.last.kind = "response" /\ llm.last.status < 400)
    /\ gen.pc # "idle"
       => \A i \in DOMAIN gen.returns :
            LET r == gen.returns[i]
            IN  /\ r.posts <= MAX_RETRIES + 1
                /\ r.tries = r.posts
                /\ llm.key = "" <=> r.error = "SERVER_CONFIG"
                /\ llm.key = "" => r.posts = 0

\* what does hold: the bound, the count and the case of the missing key
TriesCountRequests ==
    /\ llm.active => llm.posts <= MAX_RETRIES + 1
    /\ gen.pc # "idle"
       => \A i \in DOMAIN gen.returns :
            LET r == gen.returns[i]
            IN  /\ r.posts <= MAX_RETRIES + 1
                /\ r.tries = r.posts
                /\ llm.key = "" <=> r.error = "SERVER_CONFIG"
                /\ llm.key = "" => r.posts = 0

\* C18: call_openrouter makes a further attempt only after a timeout or an
\* HTTP error status of RETRY_STATUS; after any other HTTP error status, a
\* request error that is no timeout, a response without content or an
\* unexpected exception it makes no further attempt with that model.
C18_RetryOnlyTransient ==
    Retrying
    => \/ llm.last.kind = "Timeout"
       \/ /\ llm.last.kind = "response"
          /\ llm.last.status >= 400
          /\ llm.last.status \in RETRY_STATUS

\* what does hold: no further attempt after a non-retryable HTTP error status,
\* a response without content or an unexpected exception
NoRetryAfterFinalOutcomes ==
    Retrying
    => /\ ~(llm.last.kind = "response" /\ llm.last.status >= 400
                /\ llm.last.status \notin RETRY_STATUS)
       /\ ~(llm.last.kind = "response" /\ llm.last.json = "ok" /\ llm.last.status < 400)
       /\ llm.last.kind # "Exception"
       /\ ~(llm.last.kind = "response" /\ llm.last.json = "Exception")

\* the error codes of call_openrouter
ErrorCodes ==
    {"SERVER_CONFIG", "UPSTREAM_ERROR", "UPSTREAM_TIMEOUT", "UPSTREAM_REQUEST_ERROR",
     "BAD_RESPONSE", "SERVER_ERROR"}

\* C19: every return of call_openrouter carries either content and no error,
\* or no content and an error with one of the six codes; an error of an earlier
\* attempt never comes with the content of a later one.
C19_ContentXorError ==
    gen.pc # "idle"
    => \A i \in DOMAIN gen.returns :
         LET r == gen.returns[i]
         IN  \/ ~NoContent(r) /\ r.error = "None"
             \/ NoContent(r) /\ r.error \in ErrorCodes

\* content returned by the third attempt of the fallback model, after the
\* primary model had failed with an error
C19_Witness ==
    /\ gen.pc = "returned"
    /\ Len(gen.returns) = 2
    /\ gen.returns[1].error = "UPSTREAM_REQUEST_ERROR"
    /\ gen.returns[2].tries = MAX_RETRIES + 1
    /\ gen.returns[2].content = "line"
    /\ gen.returns[2].error = "None"

(***************************************************************************)
(* The text helpers of the Premium pipeline. Beside the ASCII characters,  *)
(* a text may hold the one-character tokens "ELLIPSIS" (U+2026), "ENDASH"  *)
(* (U+2013) and "BULLET" (U+2022).                                         *)
(***************************************************************************)
IsWordChar(c) == IsCased(c) \/ IsDigit(c) \/ c = "_"

\* the number of words of str.split()
WordCount(s) ==
    Cardinality({ i \in DOMAIN s : ~IsSpace(s[i]) /\ (i = 1 \/ IsSpace(s[i - 1])) })

\* re.sub(r"\s+", " ", s)
CollapseWs(s) ==
    LET marked == [ i \in DOMAIN s |->
                      [c |-> IF IsSpace(s[i]) THEN " " ELSE s[i],
                       keep |-> ~IsSpace(s[i]) \/ i = 1 \/ ~IsSpace(s[i - 1])] ]
        kept == SelectSeq(marked, LAMBDA m : m.keep)
    IN  [ i \in DOMAIN kept |-> kept[i].c ]

\* " ".join(s.split()[:n]), for a text of more than n words
JoinWords(s, n) ==
    LET j == Strip(CollapseWs(s))
        cut == CHOOSE i \in DOMAIN j :
                 j[i] = " " /\ Cardinality({ k \in 1 .. i : j[k] = " " }) = n
    IN  SubSeq(j, 1, cut - 1)

\* str.rstrip(chars)
RECURSIVE RStripChars(_, _)
RStripChars(s, chars) ==
    IF s # <<>> /\ s[Len(s)] \in chars
    THEN RStripChars(SubSeq(s, 1, Len(s) - 1), chars) ELSE s

\* _strip_md_noise(s)
_strip_md_noise(s) ==
    Strip(SelectSeq(s, LAMBDA c : c \notin {"*", "_", "BACKTICK", ">", "#", "~"}))

\* _ensure_end_punct(s); "$" also matches before a final newline
_ensure_end_punct(s) ==
    LET EndPunct(c) == c \in {".", "!", "?"}
    IN  IF s = <<>> THEN s
        ELSE IF EndPunct(s[Len(s)]) THEN s
        ELSE IF s[Len(s)] = "\n" /\ Len(s) >= 2 /\ EndPunct(s[Len(s) - 1]) THEN s
        ELSE s \o <<".">>

\* _first_sentence_or_line(s): splitlines()[0] raises IndexError on the empty
\* string, which has no lines
_first_sentence_or_line(s) ==
    IF s = <<>> THEN [raises |-> TRUE, text |-> <<>>]
    ELSE
      LET breaks == { i \in DOMAIN s : s[i] \in {"\n", "\r"} }
          first == IF breaks = {} THEN s
                   ELSE SubSeq(s, 1, (CHOOSE i \in breaks : \A k \in breaks : i <= k) - 1)
          line == Strip(first)
          \* ^(.+?[.!?])(\s|$)
          ends == { i \in 2 .. Len(line) :
                      /\ line[i] \in {".", "!", "?"}
                      /\ (i = Len(line) \/ IsSpace(line[i + 1])) }
      IN  [raises |-> FALSE,
           text |-> IF ends = {} THEN line
                    ELSE Strip(SubSeq(line, 1, CHOOSE i \in ends : \A k \in ends : i <= k))]

\* _cap_words(s, max_words)
_cap_words(s, max_words) ==
    IF WordCount(s) <= max_words THEN s
    ELSE RStripChars(JoinWords(s, max_words), {",", ";", ":", "ENDASH", "-"})
         \o <<"ELLIPSIS">>

\* the tail (?:\s*\bundefined\b\s*)+\Z removed
RECURSIVE DropUndefined(_)
DropUndefined(t) ==
    LET r == RStrip(t)
        word == <<"u","n","d","e","f","i","n","e","d">>
        n == Len(r)
    IN  IF /\ n >= 9
           /\ Lower(SubSeq(r, n - 8, n)) = word
           /\ (n = 9 \/ ~IsWordChar(r[n - 9]))
        THEN DropUndefined(SubSeq(r, 1, n - 9))
        ELSE t

\* _extract_after_label(text, label)
_extract_after_label(text, label) ==
    LET t == Strip(text)
        L == Len(label)
        \* \b<label>\s*: matches at i
        At(i) == /\ i + L - 1 <= Len(t)
                 /\ (i = 1 \/ ~IsWordChar(t[i - 1]))
                 /\ Lower(SubSeq(t, i, i + L - 1)) = Lower(label)
                 /\ SkipWs(t, i + L) <= Len(t)
                 /\ t[SkipWs(t, i + L)] = ":"
        hits == { i \in DOMAIN t : At(i) }
        m == CHOOSE i \in hits : \A k \in hits : i <= k
        after == IF hits = {} THEN t
                 ELSE Strip(SubSeq(t, SkipWs(t, m + L) + 1, Len(t)))
        cut == DropUndefined(after)
    IN  Strip(cut)

\* re.sub(r"^[\-\*•]\s*", "", t, flags=re.MULTILINE)
DropBullets(t) ==
    LET bullets == { i \in DOMAIN t :
                       t[i] \in {"-", "*", "BULLET"} /\ (i = 1 \/ t[i - 1] = "\n") }
        Dropped(j) ==
            \/ j \in bullets
            \/ /\ IsSpace(t[j])
               /\ \E i \in bullets : i < j /\ \A k \in (i + 1) .. j : IsSpace(t[k])
        marked == [ j \in DOMAIN t |-> [c |-> t[j], keep |-> ~Dropped(j)] ]
        kept == SelectSeq(marked, LAMBDA m : m.keep)
    IN  [ i \in DOMAIN kept |-> kept[i].c ]

sHook == <<"H","o","o","k">>
sBody == <<"B","o","d","y">>
sCTA  == <<"C","T","A">>

HookCap == 16
BodyCap == 80
CtaCap  == 20

\* _tighten_hook(raw)
_tighten_hook(raw) ==
    LET t == _first_sentence_or_line(_strip_md_noise(_extract_after_label(raw, sHook)))
    IN  IF t.raises THEN t
        ELSE [raises |-> FALSE, text |-> _ensure_end_punct(_cap_words(t.text, HookCap))]

\* _tighten_body(raw)
_tighten_body(raw) ==
    LET t == _strip_md_noise(_extract_after_label(raw, sBody))
        u == Strip(CollapseWs(DropBullets(t)))
    IN  [raises |-> FALSE, text |-> _ensure_end_punct(_cap_words(u, BodyCap))]

\* _tighten_cta(raw)
_tighten_cta(raw) ==
    LET t == _first_sentence_or_line(_strip_md_noise(_extract_after_label(raw, sCTA)))
    IN  IF t.raises THEN t
        ELSE [raises |-> FALSE, text |-> _ensure_end_punct(_cap_words(t.text, CtaCap))]

\* n times the word w, separated by single spaces
Rep(n, w) ==
    [ i \in 1 .. (n * (Len(w) + 1) - 1) |->
        IF i % (Len(w) + 1) = 0 THEN " " ELSE w[i % (Len(w) + 1)] ]

\* how a model output may open: no label, or a label as models write it
RawLabels ==
    { <<>>,
      <<"H","o","o","k",":"," ">>,
      <<"*","*","B","o","d","y",":","*","*"," ">>,
      <<"c","t","a"," ",":">> }

\* word counts at and around the three caps
WordCounts == {0, 1, HookCap, HookCap + 1, CtaCap, CtaCap + 1, BodyCap, MaxWords}

\* raw texts of a given size, with and without end punctuation
SizedTexts ==
    { label \o Rep(n, <<"g","o">>) \o end :
        label \in RawLabels, n \in WordCounts, end \in {<<>>, <<"?">>} }

\* raw texts that exercise the sentence cut, the bullets, the markdown noise,
\* the trailing "undefined" and the characters stripped before the ellipsis
OddTexts ==
    { <<"*","*">>,
      <<"H","o","o","k",":">>,
      <<"H","i"," ","y","o","u",".","\n","G","o"," ","o","n","!">>,
      <<"h","o","o","k",":"," ","S","t","o","p","!"," ","N","o","w"," ","g","o">>,
      <<"B","o","d","y",":","\n","-"," ","a","\n","-"," ","\n","BULLET"," ","b","\n","c">>,
      <<"C","T","A",":"," ","s","a","v","e"," ","i","t"," ","u","n","d","e","f","i","n","e","d",
        " ","U","n","d","e","f","i","n","e","d","\n">>,
      <<"g","o"," ","u","n","d","e","f","i","n","e","d",".">>,
      Rep(HookCap - 1, <<"g","o">>) \o <<" ","g","o",",",";"," ","o","n">>,
      Rep(CtaCap - 1, <<"g","o">>) \o <<" ","-","ENDASH"," ","o","n">>,
      Rep(BodyCap, <<"a",".">>) \o <<" ","\n","\t","z">>,
      <<"#"," ","H","o","o","k"," ",":"," ","_","y","o","u","_"," ","w","i","n",".",".","."," ","o","k">> }

RawTexts == SizedTexts \cup OddTexts

InitTighten ==
    /\ LedgerIdle
    /\ ptok = NoPt /\ llm = NoLlm /\ gen = NoGen /\ rev = NoRev /\ inflight = NoInflight
    /\ \E raw \in RawTexts : txt = [stage |-> "raw", raw |-> raw]

tighten_hook ==
    /\ txt.stage = "raw"
    /\ txt' = [stage |-> "hook", raw |-> txt.raw, out |-> _tighten_hook(txt.raw)]
    /\ UNCHANGED <<ledger, ptok, llm, gen, rev, inflight>>

tighten_body ==
    /\ txt.stage = "raw"
    /\ txt' = [stage |-> "body", raw |-> txt.raw, out |-> _tighten_body(txt.raw)]
    /\ UNCHANGED <<ledger, ptok, llm, gen, rev, inflight>>

tighten_cta ==
    /\ txt.stage = "raw"
    /\ txt' = [stage |-> "cta", raw |-> txt.raw, out |-> _tighten_cta(txt.raw)]
    /\ UNCHANGED <<ledger, ptok, llm, gen, rev, inflight>>

NextTighten == tighten_hook \/ tighten_body \/ tighten_cta

SpecTighten == InitTighten /\ [][NextTighten]_vars

\* the cap of the function that produced txt.out
CapOf(stage) == IF stage = "hook" THEN 16 ELSE IF stage = "body" THEN 80 ELSE 20

\* an output within its cap that, when not empty, ends with ".", "!" or "?"
WellFormed(stage, text) ==
    /\ WordCount(text) <= CapOf(stage)
    /\ text # <<>> => text[Len(text)] \in {".", "!", "?"}

\* C6: for every raw text each of the three tightening functions gives an
\* output of at most 16, 80 and 20 words, which ends with ".", "!" or "?" when
\* it is not empty.
C6_TightenedWithinCaps ==
    txt.stage \in {"hook", "body", "cta"}
    => /\ ~txt.out.raises
       /\ WellFormed(txt.stage, txt.out.text)

\* what does hold: the outputs the functions return are within their caps
ReturnedTextsWellFormed ==
    (txt.stage \in {"hook", "body", "cta"} /\ ~txt.out.raises)
    => WellFormed(txt.stage, txt.out.text)

\* a text over the cap was cut and closed
CappedTextReturned ==
    /\ txt.stage = "hook"
    /\ WordCount(txt.raw) > 16
    /\ ~txt.out.raises
    /\ WordCount(txt.out.text) = 16

(***************************************************************************)
(* The quality gates of the Premium pipeline. "RSQUO" is the one-character *)
(* token for U+2019.                                                       *)
(***************************************************************************)
\* re.search of a phrase that starts and ends with a word character, between
\* word boundaries, ignoring case
HasPhrase(s, p) ==
    \E i \in 1 .. (Len(s) - Len(p) + 1) :
        /\ Lower(SubSeq(s, i, i + Len(p) - 1)) = p
        /\ (i = 1 \/ ~IsWordChar(s[i - 1]))
        /\ (i + Len(p) > Len(s) \/ ~IsWordChar(s[i + Len(p)]))

\* the phrases of GENERIC_Q_RE; "are you( a)?" matches where "are you" does
GenericPhrases ==
    { <<"e","v","e","r"," ","w","o","n","d","e","r">>,
      <<"h","a","v","e"," ","y","o","u"," ","e","v","e","r">>,
      <<"a","r","e"," ","y","o","u">>,
      <<"d","i","d"," ","y","o","u"," ","k","n","o","w">>,
      <<"i","n"," ","t","o","d","a","y","s"," ","v","i","d","e","o">>,
      <<"i","n"," ","t","o","d","a","y","'","s"," ","v","i","d","e","o">>,
      <<"i","n"," ","t","o","d","a","y","s"," ","r","e","e","l">>,
      <<"i","n"," ","t","o","d","a","y","'","s"," ","r","e","e","l">>,
      <<"i","n"," ","t","h","i","s"," ","v","i","d","e","o">>,
      <<"l","e","t","s"," ","d","i","v","e"," ","i","n">>,
      <<"l","e","t","'","s"," ","d","i","v","e"," ","i","n">> }

\* GENERIC_Q_RE.search(s) is not None
GENERIC_Q_RE(s) == \E p \in GenericPhrases : HasPhrase(s, p)

\* YOU_RE.search(s) is not None: "you" after a word boundary, followed by "r",
\* by "'re" (with either apostrophe) or by a word boundary
YOU_RE(s) ==
    \E i \in 1 .. (Len(s) - 2) :
        /\ Lower(SubSeq(s, i, i + 2)) = <<"y","o","u">>
        /\ (i = 1 \/ ~IsWordChar(s[i - 1]))
        /\ \/ i + 3 > Len(s)
           \/ ~IsWordChar(s[i + 3])
           \/ ToLower(s[i + 3]) = "r"

\* the verbs of ACTION_VERBS_RE
ActionVerbs ==
    { <<"s","a","v","e">>,
      <<"c","o","m","m","e","n","t">>,
      <<"f","o","l","l","o","w">>,
      <<"d","m">>,
      <<"s","h","a","r","e">>,
      <<"t","a","p">>,
      <<"t","r","y">>,
      <<"u","s","e">>,
      <<"a","p","p","l","y">>,
      <<"p","o","s","t">>,
      <<"r","e","c","o","r","d">>,
      <<"w","r","i","t","e">>,
      <<"b","u","i","l","d">>,
      <<"l","a","u","n","c","h">>,
      <<"f","i","x">>,
      <<"d","o","w","n","l","o","a","d">>,
      <<"g","r","a","b">>,
      <<"j","o","i","n">>,
      <<"w","a","t","c","h">>,
      <<"b","o","o","k","m","a","r","k">> }

\* ACTION_VERBS_RE.search(s) is not None
ACTION_VERBS_RE(s) == \E p \in ActionVerbs : HasPhrase(s, p)

\* _hook_needs_reforge(h)
_hook_needs_reforge(h) ==
    \/ h = <<>>
    \/ WordCount(h) < 8
    \/ WordCount(h) > 18
    \/ ~YOU_RE(h)
    \/ GENERIC_Q_RE(h)

\* _body_needs_reforge(b)
_body_needs_reforge(b) ==
    \/ b = <<>>
    \/ WordCount(b) < 50
    \/ WordCount(b) > 100
    \/ ~YOU_RE(b)
    \/ GENERIC_Q_RE(b)
    \/ ~ACTION_VERBS_RE(b)

\* _cta_needs_reforge(c)
_cta_needs_reforge(c) ==
    \/ c = <<>>
    \/ WordCount(c) > 24
    \/ ~ACTION_VERBS_RE(c)
    \/ ~YOU_RE(c)

(***************************************************************************)
(* generate_review. One step is the code between two generate_with_fallback *)
(* invocations: the invocation returns one of the results it can return    *)
(* (GenerateResults), and the view runs on to its next invocation or to    *)
(* its response.                                                           *)
(***************************************************************************)
\* the model outputs of TextIds: a whole script opened by a generic question,
\* a single unlabeled line, a labeled body of 52 words, and markdown noise
TextOf(c) ==
    IF c = "script" THEN
        <<"h","o","o","k",":"," ","A","r","e"," ","y","o","u"," ","s","t","i","l","l"," ",
          "s","t","u","c","k"," ","a","t"," ","2","0","0"," ","f","o","l","l","o","w","e",
          "r","s"," ","a","f","t","e","r"," ","p","o","s","t","i","n","g"," ","e","v","e",
          "r","y"," ","d","a","y","?","\n","\n","B","o","d","y",":"," ","Y","o","u"," ","p",
          "o","s","t"," ","d","a","i","l","y",".","\n","\n","C","T","A",":"," ","S","a","v",
          "e"," ","t","h","i","s",".">>
    ELSE IF c = "line" THEN
        <<"S","a","v","e"," ","t","h","i","s"," ","a","n","d"," ","t","r","y"," ","i","t",
          " ","o","n"," ","y","o","u","r"," ","n","e","x","t"," ","r","e","e","l">>
    ELSE IF c = "long" THEN
        <<"B","o","d","y",":"," ","y","o","u"," ","s","a","v","e"," ">>
        \o Rep(50, <<"g","o">>)
    ELSE <<"*","*">>

\* _tighten_hook / _tighten_body / _tighten_cta of each model output, with the
\* verdict of the quality gate on the tightened text
TightenedHook ==
    [ c \in TextIds |->
        LET t == _tighten_hook(TextOf(c))
        IN  [raises |-> t.raises, text |-> t.text,
             reforge |-> ~t.raises /\ _hook_needs_reforge(t.text)] ]

TightenedBody ==
    [ c \in TextIds |->
        LET t == _tighten_body(TextOf(c))
        IN  [raises |-> t.raises, text |-> t.text,
             reforge |-> ~t.raises /\ _body_needs_reforge(t.text)] ]

TightenedCta ==
    [ c \in TextIds |->
        LET t == _tighten_cta(TextOf(c))
        IN  [raises |-> t.raises, text |-> t.text,
             reforge |-> ~t.raises /\ _cta_needs_reforge(t.text)] ]

\* text.replace("\r\n", "\n").replace("\r", "\n")
UnixLines(t) ==
    LET marked == [ i \in DOMAIN t |->
                      [c |-> IF t[i] = "\r" THEN "\n" ELSE t[i],
                       keep |-> ~(t[i] = "\r" /\ i < Len(t) /\ t[i + 1] = "\n")] ]
        kept == SelectSeq(marked, LAMBDA m : m.keep)
    IN  [ i \in DOMAIN kept |-> kept[i].c ]

\* the index of the first character from i on that is no word character
RECURSIVE SkipWord(_, _)
SkipWord(s, i) == IF i <= Len(s) /\ IsWordChar(s[i]) THEN SkipWord(s, i + 1) ELSE i

\* re.sub(r"^```(?:\w+)?\n", "", t) and re.sub(r"\n```$", "", t); "$" also
\* matches before a final newline
DropFences(t) ==
    LET fence == <<"BACKTICK", "BACKTICK", "BACKTICK">>
        e == SkipWord(t, 4)
        u == IF Len(t) >= 4 /\ SubSeq(t, 1, 3) = fence /\ e <= Len(t) /\ t[e] = "\n"
             THEN SubSeq(t, e + 1, Len(t)) ELSE t
        n == Len(u)
        close == <<"\n">> \o fence
    IN  IF n >= 4 /\ SubSeq(u, n - 3, n) = close THEN SubSeq(u, 1, n - 4)
        ELSE IF n >= 5 /\ u[n] = "\n" /\ SubSeq(u, n - 4, n - 1) = close
        THEN SubSeq(u, 1, n - 5) \o <<"\n">>
        ELSE u

\* t with the spans that start at the indices of hits and reach to End[i]
\* replaced by canon, from the last one back
RECURSIVE ReplaceSpans(_, _, _, _)
ReplaceSpans(t, hits, End, canon) ==
    IF hits = {} THEN t
    ELSE LET i == CHOOSE h \in hits : \A k \in hits : k <= h
         IN  ReplaceSpans(SubSeq(t, 1, i - 1) \o canon \o SubSeq(t, End[i] + 1, Len(t)),
                          hits \ {i}, End, canon)

\* re.sub(r"(?im)^\s*<label>\s*:", canon, t); the \s* after "^" also takes
\* the line breaks of empty lines, and a match does not start inside another
SubLabel(t, label, canon) ==
    LET L == Len(label)
        starts == { i \in DOMAIN t : i = 1 \/ t[i - 1] = "\n" }
        End == [ i \in starts |-> SkipWs(t, SkipWs(t, i) + L) ]
        Hit(i) == /\ SkipWs(t, i) + L - 1 <= Len(t)
                  /\ Lower(SubSeq(t, SkipWs(t, i), SkipWs(t, i) + L - 1)) = label
                  /\ End[i] <= Len(t)
                  /\ t[End[i]] = ":"
        hits == { i \in starts : Hit(i) }
        first == { i \in hits : ~\E j \in hits : j < i /\ i <= End[j] }
    IN  ReplaceSpans(t, first, End, canon)

\* _normalize_sections(text)
_normalize_sections(text) ==
    IF text = <<>> THEN text
    ELSE LET t0 == DropFences(UnixLines(text))
             t1 == SubLabel(t0, <<"h","o","k">>, sHook \o <<":">>)
             t2 == SubLabel(t1, Lower(sHook), sHook \o <<":">>)
             t3 == SubLabel(t2, Lower(sBody), sBody \o <<":">>)
             t4 == SubLabel(t3, Lower(sCTA), sCTA \o <<":">>)
         IN  RStrip(DropUndefined(t4))

\* combined = f"Hook: {hook}\n\nBody: {body_txt}\n\nCTA: {cta_txt}"
Combined(hook, body_txt, cta_txt) ==
    sHook \o <<":", " ">> \o hook \o <<"\n", "\n">> \o sBody \o <<":", " ">> \o body_txt
    \o <<"\n", "\n">> \o sCTA \o <<":", " ">> \o cta_txt

\* cleaned = _normalize_sections(combined.strip()), for the texts the sections
\* can hold
StepwiseCleaned ==
    [ h \in { TightenedHook[c].text : c \in TextIds },
      b \in { TightenedBody[c].text : c \in TextIds },
      c \in { TightenedCta[k].text : k \in TextIds }
      |-> _normalize_sections(Strip(Combined(h, b, c))) ]

\* cleaned = _normalize_sections(content.strip()), for each model output
SingleCleaned == [ c \in TextIds |-> _normalize_sections(Strip(TextOf(c))) ]

\* _norm(s), for a string or a missing field (<<>>)
_norm(s) == Strip([ i \in DOMAIN s |-> IF s[i] \in {"\n", "\r"} THEN " " ELSE s[i] ])

\* _get_user_doc(uid, email): the document, or None (found false) when neither
\* lookup resolves or the store raises; pick is the first document of the
\* email query
_get_user_doc(us, uid, email, pick, fault) ==
    IF fault # "none" THEN [found |-> FALSE, doc |-> NoDoc]
    ELSE IF uid # <<>> /\ Strip(uid) \in Uids /\ us[Strip(uid)].exists
    THEN [found |-> TRUE, doc |-> us[Strip(uid)]]
    ELSE IF email # <<>> /\ EmailQuery(us, Strip(email)) # {}
    THEN [found |-> TRUE, doc |-> us[pick]]
    ELSE [found |-> FALSE, doc |-> NoDoc]

\* a JsonResponse of generate_review: text is its "response" key, hook, body
\* and cta the sections it was joined from, content the model output it was
\* cleaned from; upstream <<>>: no such key
ReviewResponse(status) ==
    [status |-> status, error |-> "-", mode |-> "-", text |-> <<>>, hook |-> <<>>,
     body |-> <<>>, cta |-> <<>>, content |-> "None", meta |-> <<>>,
     upstream |-> <<>>, exc |-> "-"]

\* the view before its first request, under the configuration (key, debug)
ReviewIdle(key, debug) ==
    [pc |-> "idle", OPENROUTER_API_KEY |-> key, DEBUG_MODE |-> debug,
     req |-> [uid |-> <<>>, email |-> <<>>, fault |-> "none"],
     plan |-> <<>>, found |-> FALSE,
     hook |-> <<>>, body_txt |-> <<>>, cta_txt |-> <<>>,
     hook_meta |-> "None", body_meta |-> "None", cta_meta |-> "None",
     invoked |-> <<>>, returned |-> <<>>, response |-> ReviewResponse(0)]

\* req is the identity the request carries, with the fault the store lookup
\* meets; invoked lists the generate_with_fallback invocations of the request,
\* and returned whether each of them gave content.
\* the prompts carry no text of the section before
MutInvokeUnconditioned(v, system, arg, pc) ==
    [v EXCEPT !.pc = pc, !.invoked = Append(@, [system |-> system, arg |-> <<>>])]

\* the view calls generate_with_fallback with the given system prompt and the
\* text arg placed in the user message, and waits at pc
Invoke(v, system, arg, pc) ==
    [v EXCEPT !.pc = pc, !.invoked = Append(@, [system |-> system, arg |-> arg])]

\* the view returns the response r
Respond(v, r) == [v EXCEPT !.pc = "done", !.response = r]

\* an exception leaves the view: Django answers 500
ReviewRaised(v, exc) == Respond(v, [ReviewResponse(500) EXCEPT !.exc = exc])

\* the stepwise response
StepwiseResponse(v) ==
    Respond(v, [ReviewResponse(200) EXCEPT
                   !.mode = "premium_stepwise",
                   !.text = StepwiseCleaned[v.hook, v.body_txt, v.cta_txt],
                   !.hook = v.hook, !.body = v.body_txt, !.cta = v.cta_txt,
                   !.meta = <<v.hook_meta, v.body_meta, v.cta_meta>>])

\* a failed step answers with the sections it has
MutSingleShotReturnsPartial(v) ==
    IF v.invoked = <<>> THEN Invoke(v, "SYSTEM_PROMPT", <<>>, "single")
    ELSE Respond(v, [ReviewResponse(200) EXCEPT
                        !.mode = "premium_stepwise",
                        !.hook = v.hook, !.body = v.body_txt, !.cta = v.cta_txt])

\* the one-shot branch
SingleShot(v) == Invoke(v, "SYSTEM_PROMPT", <<>>, "single")

\* the tightening function and the gate of the section that pc works on,
\* applied to the model output named c
Tightened(pc, c) ==
    IF ~Truthy(c) \/ pc = "single" THEN [raises |-> FALSE, text |-> <<>>, reforge |-> FALSE]
    ELSE IF pc \in {"hook", "hook_reforge"} THEN TightenedHook[c]
    ELSE IF pc \in {"body", "body_reforge"} THEN TightenedBody[c]
    ELSE TightenedCta[c]

\* a reforge without content leaves the section empty
MutReforgedDropsKept(kept, r, t) == IF Truthy(r.content) THEN t.text ELSE <<>>

\* the text of a section after its reforge call returned r: the tightened
\* reforge t when there is content, else the text kept from before
Reforged(kept, r, t) == IF Truthy(r.content) THEN t.text ELSE kept

\* generate_review from the return r of a generate_with_fallback invocation to
\* the next invocation or to the response; t is Tightened(v.pc, r.content)
ReviewStep(v, r, t) ==
    IF v.pc = "hook"
    THEN IF ~Truthy(r.content) THEN SingleShot(v)
         ELSE IF t.raises THEN ReviewRaised(v, "IndexError")
         ELSE IF t.reforge
         THEN Invoke([v EXCEPT !.hook = t.text, !.hook_meta = r.meta],
                     "REFORGE_HOOK_SYSTEM_PROMPT", t.text, "hook_reforge")
         ELSE Invoke([v EXCEPT !.hook = t.text, !.hook_meta = r.meta],
                     "BODY_SYSTEM_PROMPT", t.text, "body")
    ELSE IF v.pc = "hook_reforge"
    THEN IF Truthy(r.content) /\ t.raises THEN ReviewRaised(v, "IndexError")
         ELSE Invoke([v EXCEPT !.hook = Reforged(@, r, t)],
                     "BODY_SYSTEM_PROMPT", Reforged(v.hook, r, t), "body")
    ELSE IF v.pc = "body"
    THEN IF ~Truthy(r.content) THEN SingleShot(v)
         ELSE IF t.reforge
         THEN Invoke([v EXCEPT !.body_txt = t.text, !.body_meta = r.meta],
                     "REFORGE_BODY_SYSTEM_PROMPT", t.text, "body_reforge")
         ELSE Invoke([v EXCEPT !.body_txt = t.text, !.body_meta = r.meta],
                     "CTA_SYSTEM_PROMPT", t.text, "cta")
    ELSE IF v.pc = "body_reforge"
    THEN Invoke([v EXCEPT !.body_txt = Reforged(@, r, t)],
                "CTA_SYSTEM_PROMPT", Reforged(v.body_txt, r, t), "cta")
    ELSE IF v.pc = "cta"
    THEN IF ~Truthy(r.content) THEN SingleShot(v)
         ELSE IF t.raises THEN ReviewRaised(v, "IndexError")
         ELSE IF t.reforge
         THEN Invoke([v EXCEPT !.cta_txt = t.text, !.cta_meta = r.meta],
                     "REFORGE_CTA_SYSTEM_PROMPT", t.text, "cta_reforge")
         ELSE StepwiseResponse([v EXCEPT !.cta_txt = t.text, !.cta_meta = r.meta])
    ELSE IF v.pc = "cta_reforge"
    THEN IF Truthy(r.content) /\ t.raises THEN ReviewRaised(v, "IndexError")
         ELSE StepwiseResponse([v EXCEPT !.cta_txt = Reforged(@, r, t)])
    ELSE \* the one-shot call returned
         IF Truthy(r.content)
         THEN Respond(v, [ReviewResponse(200) EXCEPT
                             !.mode = "single_shot", !.content = r.content,
                             !.text = SingleCleaned[r.content],
                             !.meta = <<r.meta>>])
         ELSE Respond(v, [ReviewResponse(502) EXCEPT
                             !.error = "Upstream model failed", !.meta = <<r.meta>>,
                             !.upstream = IF v.DEBUG_MODE /\ r.err # <<>>
                                          THEN r.err ELSE <<>>])

ReviewResume(v, r) ==
    ReviewStep([v EXCEPT !.returned = Append(@, Truthy(r.content))], r,
               Tightened(v.pc, r.content))

\* the stepwise pipeline is for every paid plan
MutIsPremiumPaid(plan) == plan \in PAID_PLANS

\* plan == "Premium"
IsPremium(plan) == plan = sPremium

\* the user documents generate_review may meet for account u1
ReviewDocs ==
    { NoDoc,
      [NoDoc EXCEPT !.exists = TRUE, !.email = EmailOf(U1)],
      InitDoc(U1, sBasic, CreditsBasic, {}, NoStamp),
      InitDoc(U1, sPro, CreditsPro, {}, NoStamp),
      InitDoc(U1, sPremium, CreditsPremium, {}, NoStamp),
      InitDoc(U1, <<"p","r","e","m","i","u","m"," ">>, 0, {}, NoStamp) }

\* request bodies: (uid, email) as sent
ReviewIdentities == Identities \cup { << <<"u","9">>, EmailOf(U1) >> }

InitReview ==
    /\ fs_db = "client"
    /\ \E doc \in ReviewDocs : users = (U1 :> doc) @@ (U2 :> OtherDoc(U2))
    /\ now = 0
    /\ resp = Response("none", 0)
    /\ calls = <<>>
    /\ prev = NoPrev
    /\ basicGrants = [d \in Uids |-> 0]
    /\ spends = 0
    /\ ptok = NoPt /\ txt = NoTxt /\ llm = NoLlm /\ gen = NoGen /\ inflight = NoInflight
    /\ \E key \in ApiKeys, debug \in BOOLEAN : rev = ReviewIdle(key, debug)

\* a request that is no POST, or whose body is no JSON
generate_review_rejected ==
    /\ rev.pc \in {"idle", "done"}
    /\ \E r \in { [ReviewResponse(405) EXCEPT !.error = "Only POST allowed."],
                  [ReviewResponse(400) EXCEPT !.error = "Invalid JSON body."] } :
         rev' = Respond(ReviewIdle(rev.OPENROUTER_API_KEY, rev.DEBUG_MODE), r)
    /\ UNCHANGED <<ledger, ptok, txt, llm, gen, inflight>>

\* a well-formed POST, up to its first generate_with_fallback invocation
generate_review ==
    /\ rev.pc \in {"idle", "done"}
    /\ \E id \in ReviewIdentities, fault \in {"none", "read"} :
         \E pick \in Picks(users, Strip(_norm(id[2])), FALSE) :
           LET uid == _norm(id[1])
               email == _norm(id[2])
               user_doc == _get_user_doc(users, uid, email, pick, fault)
               plan == Title(Strip(user_doc.doc.subscriptionPlan))
               v == [ReviewIdle(rev.OPENROUTER_API_KEY, rev.DEBUG_MODE) EXCEPT
                        !.req = [uid |-> id[1], email |-> id[2], fault |-> fault],
                        !.plan = plan, !.found = user_doc.found]
           IN  rev' = IF IsPremium(plan)
                      THEN Invoke(v, "HOOK_SYSTEM_PROMPT", <<>>, "hook")
                      ELSE SingleShot(v)
    /\ UNCHANGED <<ledger, ptok, txt, llm, gen, inflight>>

\* a generate_with_fallback invocation of the view returns
generate_review_resume ==
    /\ rev.pc \notin {"idle", "done"}
    /\ \E r \in GenerateResults[rev.OPENROUTER_API_KEY] : rev' = ReviewResume(rev, r)
    /\ UNCHANGED <<ledger, ptok, txt, llm, gen, inflight>>

NextReview ==
    \/ generate_review_rejected
    \/ generate_review
    \/ generate_review_resume

SpecReview == InitReview /\ [][NextReview]_vars

(***************************************************************************)
(* Properties of generate_review.                                          *)
(***************************************************************************)
\* the hook reforge was invoked and returned content
HookReforged(v) ==
    /\ Len(v.returned) >= 2
    /\ v.invoked[2].system = "REFORGE_HOOK_SYSTEM_PROMPT"
    /\ v.returned[2]

\* the gate half of C12: a tightened Hook that matches the generic-question
\* pattern is followed by the reforge invocation, made for that Hook
GenericHookIsReforged ==
    [][ ( /\ rev.pc = "hook"
          /\ rev'.pc \notin {"single", "done"}
          /\ GENERIC_Q_RE(rev'.hook) )
        => /\ rev'.pc = "hook_reforge"
           /\ rev'.invoked[2] = [system |-> "REFORGE_HOOK_SYSTEM_PROMPT",
                                 arg |-> rev'.hook] ]_vars

\* C12: in the Premium stepwise pipeline a tightened Hook that matches the
\* generic-question pattern triggers a reforge invocation, and when that
\* invocation returns content the Hook of the stepwise response does not match
\* the generic-question pattern.
C12_ReforgedHookNotGeneric ==
    /\ GenericHookIsReforged
    /\ [] ( ( /\ rev.pc = "done"
              /\ rev.response.mode = "premium_stepwise"
              /\ HookReforged(rev) )
            => ~GENERIC_Q_RE(rev.response.hook) )

\* the one-shot invocation was the last one, and it gave no content
SingleShotFailed(v) ==
    /\ v.invoked # <<>>
    /\ v.invoked[Len(v.invoked)].system = "SYSTEM_PROMPT"
    /\ Len(v.returned) = Len(v.invoked)
    /\ ~v.returned[Len(v.returned)]

\* the status and the 502 body of a response, as C14 states them
StatusAsStated(v) ==
    /\ v.response.status \in {200, 502}
    /\ v.response.status = 502 <=> SingleShotFailed(v)
    /\ v.response.status = 502
       => /\ v.response.meta # <<>>
          /\ v.DEBUG_MODE => Len(v.response.upstream) = 2
          /\ ~v.DEBUG_MODE => v.response.upstream = <<>>

\* C14: generate_review on a well-formed POST responds 502 exactly when the
\* single-shot generation gave no content from the primary and the fallback
\* model, and 200 otherwise; the 502 body carries meta, and the upstream error
\* (the primary and the fallback error) only when DEBUG is enabled.
C14_Status502OnlyOnTotalFailure ==
    (rev.pc = "done" /\ rev.invoked # <<>>) => StatusAsStated(rev)

\* what does hold: the same for every request that no exception ends
ReturnedStatusAsStated ==
    (rev.pc = "done" /\ rev.invoked # <<>> /\ rev.response.exc = "-")
    => StatusAsStated(rev)

\* a 502 that carries both errors
DebugFailureReturned ==
    /\ rev.pc = "done"
    /\ rev.response.status = 502
    /\ rev.response.upstream = <<"UPSTREAM_TIMEOUT", "BAD_RESPONSE">>

\* the records the identity of the request resolves to: the record of the uid
\* when it exists, else the records that carry the email
Resolved(v) ==
    LET byUid == { d \in Uids : d = Strip(v.req.uid) /\ users[d].exists }
        byEmail == { d \in Uids : /\ Strip(v.req.email) # <<>>
                                  /\ users[d].exists
                                  /\ users[d].email = Strip(v.req.email) }
    IN  IF v.req.fault # "none" THEN {}
        ELSE IF byUid # {} THEN byUid ELSE byEmail

\* the request resolves to a record on plan Premium (in any letter case)
PremiumResolved(v) ==
    \E d \in Resolved(v) :
        Lower(Strip(users[d].subscriptionPlan)) = <<"p","r","e","m","i","u","m">>

\* C20: generate_review makes the Hook/Body/CTA stepwise calls only when the
\* plan resolved from the user store is Premium; when no record resolves, the
\* lookup fails or the plan is another one, the single-shot call is the only
\* completion call and the response mode is never "premium_stepwise".
C20_StepwiseOnlyForPremium ==
    rev.invoked # <<>>
    => /\ (\E i \in DOMAIN rev.invoked : rev.invoked[i].system # "SYSTEM_PROMPT")
          => PremiumResolved(rev)
       /\ ~PremiumResolved(rev)
          => /\ rev.invoked = << [system |-> "SYSTEM_PROMPT", arg |-> <<>>] >>
             /\ rev.response.mode # "premium_stepwise"

\* the store lookup failed for a Premium user, and the request was answered
\* from the single-shot call
C20_Witness ==
    /\ rev.pc = "done"
    /\ rev.req.fault = "read"
    /\ Strip(rev.req.uid) = U1
    /\ users[U1].subscriptionPlan = sPremium
    /\ rev.response.status = 200
    /\ rev.response.mode = "single_shot"

\* the system prompts of the three generation calls of the stepwise pipeline
SectionPrompts == {"HOOK_SYSTEM_PROMPT", "BODY_SYSTEM_PROMPT", "CTA_SYSTEM_PROMPT"}

\* the invocation made with the given system prompt returned content
Generated(v, system) ==
    \E i \in DOMAIN v.returned : v.invoked[i].system = system /\ v.returned[i]

\* a generation call of the stepwise pipeline returned without content
GenerationFailed(v) ==
    \E i \in DOMAIN v.returned : v.invoked[i].system \in SectionPrompts /\ ~v.returned[i]

\* the response of the single-shot branch: the cleaned single-shot text, or 502
SingleShotOutcome(r) ==
    \/ /\ r.status = 200
       /\ r.mode = "single_shot"
       /\ r.content \in TextIds
       /\ r.text = _normalize_sections(Strip(TextOf(r.content)))
       /\ r.hook = <<>> /\ r.body = <<>> /\ r.cta = <<>>
    \/ /\ r.status = 502
       /\ r.mode = "-"
       /\ r.text = <<>>

\* C21: when the Hook, the Body or the CTA generation call of a Premium request
\* gives no content from both models, generate_review goes on with the
\* single-shot call, and the response is the single-shot text with mode
\* "single_shot" or the 502 failure; a response with stepwise sections is
\* given only after all three of Hook, Body and CTA were generated.
C21_FailedStepFallsBackToSingleShot ==
    /\ GenerationFailed(rev) /\ rev.pc # "done"
       => /\ rev.pc = "single"
          /\ rev.invoked[Len(rev.invoked)] = [system |-> "SYSTEM_PROMPT", arg |-> <<>>]
    /\ GenerationFailed(rev) /\ rev.pc = "done" => SingleShotOutcome(rev.response)
    /\ ( \/ rev.response.mode = "premium_stepwise"
         \/ rev.response.hook # <<>>
         \/ rev.response.body # <<>>
         \/ rev.response.cta # <<>> )
       => \A p \in SectionPrompts : Generated(rev, p)

\* the Hook was generated, the Body call gave no content, and the request was
\* answered with the single-shot text
C21_Witness ==
    /\ rev.pc = "done"
    /\ IsPremium(rev.plan)
    /\ Generated(rev, "HOOK_SYSTEM_PROMPT")
    /\ ~Generated(rev, "BODY_SYSTEM_PROMPT")
    /\ GenerationFailed(rev)
    /\ rev.response.status = 200
    /\ rev.response.mode = "single_shot"
    /\ rev.response.text # <<>>

\* the three sections of the stepwise pipeline: the system prompts of the
\* generation and of the reforge call, and where the view waits for the reforge
Sections ==
    { [name |-> "hook", label |-> sHook, gen |-> "HOOK_SYSTEM_PROMPT",
       reforge |-> "REFORGE_HOOK_SYSTEM_PROMPT", pc |-> "hook_reforge"],
      [name |-> "body", label |-> sBody, gen |-> "BODY_SYSTEM_PROMPT",
       reforge |-> "REFORGE_BODY_SYSTEM_PROMPT", pc |-> "body_reforge"],
      [name |-> "cta", label |-> sCTA, gen |-> "CTA_SYSTEM_PROMPT",
       reforge |-> "REFORGE_CTA_SYSTEM_PROMPT", pc |-> "cta_reforge"] }

\* the text the view holds for a section, and the one its response was joined from
SectionText(v, sec) ==
    IF sec.name = "hook" THEN v.hook ELSE IF sec.name = "body" THEN v.body_txt ELSE v.cta_txt

ResponseSection(r, sec) ==
    IF sec.name = "hook" THEN r.hook ELSE IF sec.name = "body" THEN r.body ELSE r.cta

\* the quality gate of a section
GateFlags(sec, text) ==
    IF sec.name = "hook" THEN _hook_needs_reforge(text)
    ELSE IF sec.name = "body" THEN _body_needs_reforge(text)
    ELSE _cta_needs_reforge(text)

\* the response text shows the section as "<Label>: <text>"
ShownInResponse(r, sec, text) == Contains(r.text, sec.label \o <<":", " ">> \o text)

\* the most recent invocation of the view
LastInvoked(v) == v.invoked[Len(v.invoked)]

\* every reforge invocation follows the generation call of its section, is made
\* for a tightened text that the gate of the section flags, and is the only
\* reforge of its section in the request
ReforgeOnceAndOnlyWhenFlagged ==
    \A sec \in Sections : \A i \in DOMAIN rev.invoked :
        rev.invoked[i].system = sec.reforge
        => /\ i > 1
           /\ rev.invoked[i - 1].system = sec.gen
           /\ rev.returned[i - 1]
           /\ GateFlags(sec, rev.invoked[i].arg)
           /\ \A j \in DOMAIN rev.invoked : rev.invoked[j].system = sec.reforge => j = i

\* a reforge call that returns without content leaves the text of its section
\* as it was when the reforge was asked for, and the view goes on to the next
\* stepwise call with it, or to the stepwise response
FailedReforgeKeepsText ==
    [][ \A sec \in Sections :
          ( /\ rev.pc = sec.pc
            /\ ~rev'.returned[Len(rev'.returned)] )
          => /\ SectionText(rev', sec) = LastInvoked(rev).arg
             /\ sec.name = "hook"
                => /\ rev'.pc = "body"
                   /\ LastInvoked(rev') = [system |-> "BODY_SYSTEM_PROMPT",
                                           arg |-> LastInvoked(rev).arg]
             /\ sec.name = "body"
                => /\ rev'.pc = "cta"
                   /\ LastInvoked(rev') = [system |-> "CTA_SYSTEM_PROMPT",
                                           arg |-> LastInvoked(rev).arg]
             /\ sec.name = "cta"
                => /\ rev'.pc = "done"
                   /\ rev'.response.status = 200
                   /\ rev'.response.mode = "premium_stepwise" ]_vars

\* the stepwise response carries the pre-reforge text of every section whose
\* reforge gave no content
FailedReforgeTextInResponse ==
    (rev.pc = "done" /\ rev.response.mode = "premium_stepwise")
    => \A sec \in Sections : \A i \in DOMAIN rev.invoked :
          (rev.invoked[i].system = sec.reforge /\ ~rev.returned[i])
          => /\ ResponseSection(rev.response, sec) = rev.invoked[i].arg
             /\ ShownInResponse(rev.response, sec, rev.invoked[i].arg)

\* C22: each of the sections Hook, Body and CTA has at most one reforge
\* invocation per request, made only when the gate of the section flags the
\* tightened text; when the reforge gives no content, the tightened text from
\* before the reforge is used in the next call and in the response, and the
\* pipeline goes on stepwise.
C22_OneReforgePerSectionKeepsText ==
    /\ []ReforgeOnceAndOnlyWhenFlagged
    /\ FailedReforgeKeepsText
    /\ []FailedReforgeTextInResponse

\* a stepwise response after a Hook reforge that gave no content: the response
\* shows the Hook that the reforge was asked to rewrite
C22_Witness ==
    /\ rev.pc = "done"
    /\ rev.response.mode = "premium_stepwise"
    /\ Len(rev.invoked) >= 2
    /\ rev.invoked[2].system = "REFORGE_HOOK_SYSTEM_PROMPT"
    /\ ~rev.returned[2]
    /\ rev.response.hook = rev.invoked[2].arg
    /\ rev.response.hook # <<>>

\* the invocations of the request made with one of the given system prompts
InvokedWith(v, systems) == { i \in DOMAIN v.invoked : v.invoked[i].system \in systems }

\* C23: the Body generation call is made only after the Hook step, its reforge
\* included, has finished, and its prompt holds exactly the Hook of the final
\* response; the CTA generation call is made only after the Body step has
\* finished, and its prompt holds exactly the Body of the final response.
C23_PromptsCarryFinalSections ==
    /\ \A i \in InvokedWith(rev, {"BODY_SYSTEM_PROMPT"}) :
          /\ rev.invoked[i].arg = rev.hook
          /\ 1 \in InvokedWith(rev, {"HOOK_SYSTEM_PROMPT"})
          /\ \A j \in InvokedWith(rev, {"HOOK_SYSTEM_PROMPT", "REFORGE_HOOK_SYSTEM_PROMPT"}) :
                j < i /\ j <= Len(rev.returned)
    /\ \A i \in InvokedWith(rev, {"CTA_SYSTEM_PROMPT"}) :
          /\ rev.invoked[i].arg = rev.body_txt
          /\ InvokedWith(rev, {"BODY_SYSTEM_PROMPT"}) # {}
          /\ \A j \in InvokedWith(rev, {"BODY_SYSTEM_PROMPT", "REFORGE_BODY_SYSTEM_PROMPT"}) :
                j < i /\ j <= Len(rev.returned)
    /\ (rev.pc = "done" /\ rev.response.mode = "premium_stepwise")
       => /\ rev.response.hook = rev.hook
          /\ rev.response.body = rev.body_txt
          /\ \E i \in InvokedWith(rev, {"BODY_SYSTEM_PROMPT"}) :
                ShownInResponse(rev.response, CHOOSE sec \in Sections : sec.name = "hook",
                                rev.invoked[i].arg)
          /\ \E i \in InvokedWith(rev, {"CTA_SYSTEM_PROMPT"}) :
                ShownInResponse(rev.response, CHOOSE sec \in Sections : sec.name = "body",
                                rev.invoked[i].arg)

\* a stepwise response whose Hook and Body were both reforged with content:
\* the Body call came after the Hook reforge, the CTA call after the Body
\* reforge, each with the reforged text
C23_Witness ==
    /\ rev.pc = "done"
    /\ rev.response.mode = "premium_stepwise"
    /\ Len(rev.invoked) >= 5
    /\ rev.invoked[2].system = "REFORGE_HOOK_SYSTEM_PROMPT" /\ rev.returned[2]
    /\ rev.invoked[3] = [system |-> "BODY_SYSTEM_PROMPT", arg |-> rev.response.hook]
    /\ rev.invoked[4].system = "REFORGE_BODY_SYSTEM_PROMPT" /\ rev.returned[4]
    /\ rev.invoked[5] = [system |-> "CTA_SYSTEM_PROMPT", arg |-> rev.response.body]
    /\ rev.invoked[2].arg # rev.response.hook
    /\ rev.invoked[4].arg # rev.response.body

\* a well-formed request has been answered: every such request has made at
\* least one generate_with_fallback invocation
WellFormedAnswered == rev.pc = "done" /\ rev.invoked # <<>>

\* the upstream HTTP requests of the generate_with_fallback invocation in
\* progress, over the calls that returned and the call that runs
InvocationPosts ==
    (IF Len(gen.returns) >= 1 THEN gen.returns[1].posts ELSE 0)
    + (IF Len(gen.returns) >= 2 THEN gen.returns[2].posts ELSE 0)
    + (IF llm.active THEN llm.posts ELSE 0)

\* C35: every well-formed generate_review request ends with a 200 or a 502
\* response after at most 7 generate_with_fallback invocations (Hook, Hook
\* reforge, Body, Body reforge, CTA, CTA reforge, single-shot), whatever the
\* upstream calls return
C35_EndsWith200Or502InSevenInvocations ==
    /\ Len(rev.invoked) <= 7
    /\ WellFormedAnswered => rev.response.status \in {200, 502}

\* what holds of C35: a request never makes more than 6 invocations (the
\* single-shot call follows a failed Hook, Body or CTA call, never the CTA
\* reforge), and a request that no exception ends is answered 200 or 502
InvocationsBounded ==
    /\ Len(rev.invoked) <= 6
    /\ WellFormedAnswered /\ rev.response.exc = "-" => rev.response.status \in {200, 502}

\* the longest request: five stepwise invocations, a CTA call without
\* content and the single-shot call
SixInvocations ==
    /\ WellFormedAnswered
    /\ Len(rev.invoked) = 6
    /\ rev.invoked[6].system = "SYSTEM_PROMPT"
    /\ rev.response.status \in {200, 502}

\* what holds of C35: one generate_with_fallback invocation calls at most two
\* models and makes at most 2 * (MAX_RETRIES + 1) upstream HTTP requests
InvocationRequestsBounded ==
    gen.pc # "idle"
    => /\ Len(gen.invoked) <= 2
       /\ Len(gen.returns) <= 2
       /\ InvocationPosts <= 2 * (MAX_RETRIES + 1)

\* an invocation that used all its requests
InvocationRequestsExhausted ==
    gen.pc = "returned" /\ InvocationPosts = 2 * (MAX_RETRIES + 1)

====
